---- MODULE Spec2Model ----
(***************************************************************************)
(* A model of dissect.cim: the read-only parser and navigator of the       *)
(* Windows CIM (WMI) repository.                                           *)
(*                                                                         *)
(* The module holds state machines over disjoint variables:                *)
(*   SpecMap  mapping selection (utils.find_current_mapping) and the first *)
(*            checks of CIM.__init__;                                      *)
(*   SpecObj  page translation (Mapping.get_entry, objects.Store) and the  *)
(*            reassembly of an object (Objects.get, DataPage.data);        *)
(*   SpecNav  keys, the index lookup, and the navigator (Namespace.class_, *)
(*            Class.derivation, Class.properties, Property.default_value); *)
(*   SpecInst the instances: ClassInstance.key, Class.instances,           *)
(*            Namespace.namespaces, Namespace.classes and CIM.query;       *)
(*   SpecKey  the construction of a Key and its data reference;            *)
(*   SpecCtor the mapping parsers CIM.__init__ runs over one stream;       *)
(*   SpecIdx  Index.lookup on an index of several pages;                   *)
(*   SpecMemo the same lookups and Mapping.get_entry behind lru_cache;     *)
(*   SpecProp the value of a property of a stored instance;                *)
(*   SpecXp   is_xp_mapping on one header.                                 *)
(* Each specification leaves the variables of the others at their idle     *)
(* values.  The functions of the library that depend on their arguments    *)
(* only are called in specifications of their own, over the frame calc.    *)
(***************************************************************************)
EXTENDS Integers, Sequences, FiniteSets, TLC

VARIABLES
    mappings,   \* SpecMap: the candidate mapping streams, each a sequence of dwords
    fcm,        \* SpecMap: the frame of find_current_mapping / CIM.__init__
    omap,       \* SpecObj: the objects mapping: [count, entries]
    ofile,      \* SpecObj: OBJECTS.DATA, physical page number -> page or absent
    okey,       \* SpecObj: the data reference handed to Objects.get
    og,         \* SpecObj: the frame of Objects.get
    cim,        \* SpecNav: the session: [type_xp, index, objects]
    nav,        \* SpecNav: the frame of the navigator call in progress
    calc        \* the frame of a call of a function of the library on its own

mapVars == <<mappings, fcm>>
objVars == <<omap, ofile, okey, og>>
navVars == <<cim, nav>>
vars == <<mappings, fcm, omap, ofile, okey, og, cim, nav, calc>>

(***************************************************************************)
(* Small helpers.                                                          *)
(***************************************************************************)
Min(a, b) == IF a <= b THEN a ELSE b
Max(a, b) == IF a >= b THEN a ELSE b

RECURSIVE SumLen(_)
SumLen(s) == IF s = <<>> THEN 0 ELSE Head(s).len + SumLen(Tail(s))

(***************************************************************************)
(* c_cim.py: constants of the on-disk format.                              *)
(***************************************************************************)
MAPPING_SIGNATURE == 43981            \* 0xABCD
FOOTER_SIGNATURE == 56506             \* 0xDCBA
DATA_PAGE_SIZE == 8192                \* 0x2000
MAPPING_PAGE_ID_MASK == 1073741823    \* 0x3FFFFFFF
UNMAPPED_PAGE_VALUE == 1073741823     \* 0x3FFFFFFF

(***************************************************************************)
(* SpecMap.  A mapping stream is the sequence of its dwords.  Both header  *)
(* layouts start with signature and version; the modern layout then has    *)
(* first_id and second_id before the two counts, the XP layout has not.    *)
(***************************************************************************)
NumMappingFiles == 3
MaxVersion == 2

mapping_header(m) ==
    [signature |-> m[1], version |-> m[2], has_ids |-> TRUE,
     first_id |-> m[3], second_id |-> m[4],
     physical_page_count |-> m[5], mapping_entry_count |-> m[6]]

mapping_header_xp(m) ==
    [signature |-> m[1], version |-> m[2], has_ids |-> FALSE,
     first_id |-> 0, second_id |-> 0,
     physical_page_count |-> m[3], mapping_entry_count |-> m[4]]

\* Line 22 with the true division of Python 3 in place of the floor division.
is_xp_mapping_true_division(h) ==
    IF h.signature # MAPPING_SIGNATURE THEN "Error"
    ELSE IF 10 * h.mapping_entry_count < h.physical_page_count THEN "True"
    ELSE IF h.has_ids /\ h.first_id - 1 # h.second_id THEN "True"
    ELSE "False"

\* is_xp_mapping: "Error" stands for the raised Error, otherwise the verdict.
\* Python integers do not wrap: first_id - 1 is -1 for first_id = 0.
is_xp_mapping(h) ==
    IF h.signature # MAPPING_SIGNATURE THEN "Error"
    ELSE IF h.mapping_entry_count < h.physical_page_count \div 10 THEN "True"
    ELSE IF h.has_ids /\ h.first_id - 1 # h.second_id THEN "True"
    ELSE "False"

\* Lines 47-49 with the selection broken: max_version is never raised.
FcmSelectKeepsMax(f, i, version) ==
    IF version > f.max_version
    THEN [f EXCEPT !.current = i]
    ELSE f

\* Lines 47-49: the stream read at position i becomes current when its version
\* is greater than every version seen before.
FcmSelect(f, i, version) ==
    IF version > f.max_version
    THEN [f EXCEPT !.current = i, !.max_version = version]
    ELSE f

\* The dwords after signature and version of the streams the model draws:
\* a modern header (first_id - 1 = second_id, many entries), an XP stream
\* (its page counts read as ids under the modern layout), and a modern
\* header with few entries for its pages.
HeaderTails == { <<2, 1, 10, 8>>, <<10, 8, 0, 1>>, <<2, 1, 100, 5>> }

Signatures == { MAPPING_SIGNATURE, FOOTER_SIGNATURE }

MappingStreams ==
    { <<s, v>> \o t : s \in Signatures, v \in 0..MaxVersion, t \in HeaderTails }

FcmIdle == [pc |-> "idle", i |-> 0, type_xp |-> "None", current |-> 0,
            max_version |-> 0, err |-> "None"]

InitMap ==
    /\ mappings \in UNION { [1..n -> MappingStreams] : n \in 0..NumMappingFiles }
    /\ fcm = [FcmIdle EXCEPT !.pc = "init"]
    /\ omap = <<>> /\ ofile = <<>> /\ okey = <<>> /\ og = <<>>
    /\ cim = <<>> /\ nav = <<>> /\ calc = <<>>

\* CIM.__init__, lines 50-53: no mappings is an Error, otherwise
\* find_current_mapping is entered with its locals initialised (lines 30-33).
CimInitEnter ==
    /\ fcm.pc = "init"
    /\ fcm' = IF Len(mappings) = 0
              THEN [fcm EXCEPT !.pc = "cim_raised", !.err = "Error"]
              ELSE [fcm EXCEPT !.pc = "loop", !.i = 1]
    /\ UNCHANGED <<mappings, objVars, navVars, calc>>

\* One iteration of the loop of find_current_mapping (lines 35-49).
FcmIterate ==
    /\ fcm.pc = "loop"
    /\ fcm.i <= Len(mappings)
    /\ LET m == mappings[fcm.i]
           first == fcm.type_xp = "None"
           verdict == IF first THEN is_xp_mapping(mapping_header(m)) ELSE fcm.type_xp
           mh == IF verdict = "True" THEN mapping_header_xp(m) ELSE mapping_header(m)
       IN  IF verdict = "Error"
           THEN fcm' = [fcm EXCEPT !.pc = "raised", !.err = "Error"]
           ELSE fcm' = [FcmSelect([fcm EXCEPT !.type_xp = verdict], fcm.i, mh.version)
                           EXCEPT !.i = fcm.i + 1]
    /\ UNCHANGED <<mappings, objVars, navVars, calc>>

\* Line 51: return type_xp, current.
FcmReturn ==
    /\ fcm.pc = "loop"
    /\ fcm.i > Len(mappings)
    /\ fcm' = [fcm EXCEPT !.pc = "returned"]
    /\ UNCHANGED <<mappings, objVars, navVars, calc>>

\* CIM.__init__, lines 55-56: no current map is an Error.
CimInitCheck ==
    /\ fcm.pc = "returned"
    /\ fcm' = IF fcm.current = 0
              THEN [fcm EXCEPT !.pc = "cim_raised", !.err = "Error"]
              ELSE [fcm EXCEPT !.pc = "cim_selected"]
    /\ UNCHANGED <<mappings, objVars, navVars, calc>>

NextMap == CimInitEnter \/ FcmIterate \/ FcmReturn \/ CimInitCheck

SpecMap == InitMap /\ [][NextMap]_vars

(***************************************************************************)
(* SpecObj.  The objects mapping is the sequence of its entries (the       *)
(* parsed mapping holds exactly mapping_entry_count of them); a logical    *)
(* page number n indexes it from 0.  OBJECTS.DATA is a function from the   *)
(* physical page numbers the file holds to the table of contents of each   *)
(* page; a read of a page the file does not hold returns no bytes.  Bytes  *)
(* are tracked by where they come from: a buffer is a sequence of segments *)
(* [phys, off, len].                                                       *)
(***************************************************************************)
MaxLogical == 3

mapping_entry_count(m) == Len(m)

\* MappingEntry.__init__: the page number is the entry under the mask.
MappingEntry(entry) ==
    [err |-> "None", entry |-> entry,
     page_number |-> entry % (MAPPING_PAGE_ID_MASK + 1)]

\* Mapping.get_entry: IndexError beyond the count; a failed indexing of the
\* entries (logical_num = count) is turned into UnmappedPageError.
get_entry(m, logical_num) ==
    IF logical_num > mapping_entry_count(m)
    THEN [err |-> "IndexError", entry |-> 0, page_number |-> 0]
    ELSE IF logical_num + 1 \notin DOMAIN m
    THEN [err |-> "UnmappedPageError", entry |-> 0, page_number |-> 0]
    ELSE MappingEntry(m[logical_num + 1])

MappingEntry_is_mapped(e) == e.page_number # UNMAPPED_PAGE_VALUE

\* objects.Store.physical_page: seek to the page and read up to a page.
physical_page(file, page_number) ==
    [phys |-> page_number, off |-> 0,
     len |-> IF page_number \in DOMAIN file THEN DATA_PAGE_SIZE ELSE 0]

\* TOC.__init__: the entries up to the all-zero one; a buffer that ends
\* before the terminator is an EOFError of the struct reader.
TOC(file, buf) ==
    IF buf.len = 0 THEN [err |-> "EOFError", entries |-> <<>>]
    ELSE [err |-> "None", entries |-> file[buf.phys]]

\* BytesIO.seek(offset) then read(size) on the page buffer.
PageRead(buf, offset, size) ==
    [phys |-> buf.phys, off |-> offset,
     len |-> Max(0, Min(size, buf.len - offset))]

\* DataPage.data: the first entry of the table with the record id.
RECURSIVE DataPage_data(_, _, _, _)
DataPage_data(buf, toc, i, key) ==
    IF i > Len(toc) THEN [err |-> "IndexError"]
    ELSE IF toc[i].record_id = key.data_id
    THEN IF toc[i].size < key.data_length
         THEN [err |-> "Error"]
         ELSE [err |-> "None", buf |-> PageRead(buf, toc[i].offset, toc[i].size)]
    ELSE DataPage_data(buf, toc, i + 1, key)

\* objects.Store.page followed by DataPage.data, as Objects.get calls them
\* (lines 23-25): the error of the first step that fails, or the buffer.
Store_page_data(m, file, key) ==
    LET e == get_entry(m, key.data_page) IN
    IF e.err # "None" THEN [err |-> e.err, reads |-> <<>>]
    ELSE LET buf == physical_page(file, e.page_number)
             toc == TOC(file, buf)
         IN  IF toc.err # "None" THEN [err |-> toc.err, reads |-> <<e.page_number>>]
             ELSE DataPage_data(buf, toc.entries, 1, key) @@ [reads |-> <<e.page_number>>]

\* objects.Store.logical_page.
Store_logical_page(m, file, logical_num) ==
    LET e == get_entry(m, logical_num) IN
    IF e.err # "None" THEN [err |-> e.err]
    ELSE [err |-> "None", buf |-> physical_page(file, e.page_number)]

EntryValues == { 0, 1, 2, UNMAPPED_PAGE_VALUE, MAPPING_PAGE_ID_MASK + 1 + 1 }

PhysPages == { 0, 1 }

\* Record 1 lies inside the page; record 2 starts 16 bytes before the end of
\* the page and runs into the following pages.
TocA == << [record_id |-> 1, offset |-> 64, size |-> 16],
           [record_id |-> 2, offset |-> DATA_PAGE_SIZE - 16, size |-> DATA_PAGE_SIZE + 16] >>
TocB == << [record_id |-> 1, offset |-> 64, size |-> 32],
           [record_id |-> 2, offset |-> DATA_PAGE_SIZE - 16, size |-> 2 * DATA_PAGE_SIZE + 16] >>
Tocs == { TocA, TocB }

DataLengths == { 16, 32, DATA_PAGE_SIZE + 16, 2 * DATA_PAGE_SIZE + 16 }

DataKeys ==
    [data_page : 0..MaxLogical, data_id : {1, 2, 3}, data_length : DataLengths]

OgIdle == [pc |-> "idle", err |-> "None", n |-> 0, entry |-> <<>>,
           read_list |-> <<>>, cur_len |-> 0, cur_page |-> 0, reads |-> <<>>]

InitObj ==
    /\ omap \in UNION { [1..n -> EntryValues] : n \in 0..MaxLogical }
    /\ ofile \in [PhysPages -> Tocs]
    /\ okey = <<>>
    /\ og = OgIdle
    /\ mappings = <<>> /\ fcm = FcmIdle
    /\ cim = <<>> /\ nav = <<>> /\ calc = <<>>

\* A call of Mapping.get_entry(n).
CallGetEntry ==
    /\ og.pc = "idle"
    /\ \E n \in 0..(MaxLogical + 1) :
         LET e == get_entry(omap, n) IN
         og' = [og EXCEPT !.pc = IF e.err = "None" THEN "entry" ELSE "entry_raised",
                          !.n = n, !.err = e.err, !.entry = e]
    /\ UNCHANGED <<omap, ofile, okey, mapVars, navVars, calc>>

\* Objects.get, lines 20-33: the first page, its record, and either the
\* early return or the set-up of the splicing loop.
ObjectsGetEnter ==
    /\ og.pc = "idle"
    /\ \E key \in DataKeys :
         LET r == Store_page_data(omap, ofile, key) IN
         /\ okey' = key
         /\ og' = IF r.err # "None"
                  THEN [og EXCEPT !.pc = "raised", !.err = r.err, !.reads = r.reads]
                  ELSE IF r.buf.len = key.data_length
                  THEN [og EXCEPT !.pc = "done", !.read_list = <<r.buf>>,
                                  !.cur_len = r.buf.len, !.reads = r.reads]
                  ELSE [og EXCEPT !.pc = "loop", !.read_list = <<r.buf>>,
                                  !.cur_len = r.buf.len, !.reads = r.reads,
                                  !.cur_page = key.data_page + 1]
    /\ UNCHANGED <<omap, ofile, mapVars, navVars, calc>>

\* One iteration of the loop of Objects.get, lines 34-46.
ObjectsGetSplice ==
    /\ og.pc = "loop"
    /\ og.cur_len < okey.data_length
    /\ LET r == Store_logical_page(omap, ofile, og.cur_page) IN
       og' = IF r.err # "None"
             THEN [og EXCEPT !.pc = "raised", !.err = r.err]
             ELSE LET chunk == IF og.cur_len + r.buf.len > okey.data_length
                               THEN okey.data_length - og.cur_len
                               ELSE r.buf.len
                  IN  [og EXCEPT !.read_list = Append(@, [r.buf EXCEPT !.len = chunk]),
                                 !.cur_len = @ + chunk,
                                 !.cur_page = @ + 1,
                                 !.reads = Append(@, r.buf.phys)]
    /\ UNCHANGED <<omap, ofile, okey, mapVars, navVars, calc>>

\* Line 48: the loop is left and the joined buffers are returned.
ObjectsGetReturn ==
    /\ og.pc = "loop"
    /\ og.cur_len >= okey.data_length
    /\ og' = [og EXCEPT !.pc = "done"]
    /\ UNCHANGED <<omap, ofile, okey, mapVars, navVars, calc>>

NextObj == CallGetEntry \/ ObjectsGetEnter \/ ObjectsGetSplice \/ ObjectsGetReturn

SpecObj == InitObj /\ [][NextObj]_vars

(***************************************************************************)
(* Strings.  A Python str is a TLA+ string; characters are compared by     *)
(* their position in Alphabet, which lists the characters the model uses   *)
(* in code-point order.                                                    *)
(***************************************************************************)
Alphabet ==
    "\"',./0123456789:;=ABCDEFGHIJKLMNOPQRSTUVWXYZ\\_abcdefghijklmnopqrstuvwxyz"

Char(s, i) == SubSeq(s, i, i)

Ord == [c \in { Char(Alphabet, i) : i \in 1..Len(Alphabet) } |->
           CHOOSE i \in 1..Len(Alphabet) : Char(Alphabet, i) = c]

IsDigitChar(c) == Ord[c] >= Ord["0"] /\ Ord[c] <= Ord["9"]
IsUpperChar(c) == Ord[c] >= Ord["A"] /\ Ord[c] <= Ord["Z"]
IsLowerChar(c) == Ord[c] >= Ord["a"] /\ Ord[c] <= Ord["z"]
\* string.hexdigits is "0123456789abcdefABCDEF".
IsHexDigitChar(c) ==
    \/ IsDigitChar(c)
    \/ Ord[c] >= Ord["a"] /\ Ord[c] <= Ord["f"]
    \/ Ord[c] >= Ord["A"] /\ Ord[c] <= Ord["F"]

\* str.upper
RECURSIVE str_upper(_)
str_upper(s) ==
    IF s = "" THEN ""
    ELSE LET c == Char(s, 1) IN
         (IF IsLowerChar(c) THEN Char(Alphabet, Ord[c] - Ord["a"] + Ord["A"]) ELSE c)
             \o str_upper(SubSeq(s, 2, Len(s)))

\* str.lower
RECURSIVE str_lower(_)
str_lower(s) ==
    IF s = "" THEN ""
    ELSE LET c == Char(s, 1) IN
         (IF IsUpperChar(c) THEN Char(Alphabet, Ord[c] - Ord["A"] + Ord["a"]) ELSE c)
             \o str_lower(SubSeq(s, 2, Len(s)))

\* str.isupper: no lowercase character and at least one uppercase character.
str_isupper(s) ==
    /\ \A i \in 1..Len(s) : ~IsLowerChar(Char(s, i))
    /\ \E i \in 1..Len(s) : IsUpperChar(Char(s, i))

\* a < b on str: the first differing character decides, a proper prefix is less.
RECURSIVE str_less(_, _)
str_less(a, b) ==
    IF b = "" THEN FALSE
    ELSE IF a = "" THEN TRUE
    ELSE IF Char(a, 1) = Char(b, 1)
         THEN str_less(SubSeq(a, 2, Len(a)), SubSeq(b, 2, Len(b)))
         ELSE Ord[Char(a, 1)] < Ord[Char(b, 1)]

\* t in s
str_contains(t, s) ==
    \E i \in 1..(Len(s) - Len(t) + 1) : SubSeq(s, i, i + Len(t) - 1) = t

\* s.split(sep) for a one-character separator.
RECURSIVE str_split_from(_, _, _, _)
str_split_from(s, sep, start, i) ==
    IF i > Len(s) THEN << SubSeq(s, start, Len(s)) >>
    ELSE IF Char(s, i) = sep
         THEN << SubSeq(s, start, i - 1) >> \o str_split_from(s, sep, i + 1, i + 1)
         ELSE str_split_from(s, sep, start, i + 1)

str_split(s, sep) == str_split_from(s, sep, 1, 1)

\* sep.join(parts)
RECURSIVE str_join(_, _)
str_join(parts, sep) ==
    IF parts = <<>> THEN ""
    ELSE IF Len(parts) = 1 THEN parts[1]
    ELSE parts[1] \o sep \o str_join(Tail(parts), sep)

\* s.strip(ch) for a one-character set.
RECURSIVE str_strip(_, _)
str_strip(s, ch) ==
    IF s = "" THEN ""
    ELSE IF Char(s, 1) = ch THEN str_strip(SubSeq(s, 2, Len(s)), ch)
    ELSE IF Char(s, Len(s)) = ch THEN str_strip(SubSeq(s, 1, Len(s) - 1), ch)
    ELSE s

\* s.strip(chars) for a set of characters.
RECURSIVE str_strip_chars(_, _)
str_strip_chars(s, chars) ==
    IF s = "" THEN ""
    ELSE IF Char(s, 1) \in chars THEN str_strip_chars(SubSeq(s, 2, Len(s)), chars)
    ELSE IF Char(s, Len(s)) \in chars THEN str_strip_chars(SubSeq(s, 1, Len(s) - 1), chars)
    ELSE s

\* s.replace(old, new) for one-character strings old.
RECURSIVE str_replace(_, _, _)
str_replace(s, old, new) ==
    IF s = "" THEN ""
    ELSE (IF Char(s, 1) = old THEN new ELSE Char(s, 1))
             \o str_replace(SubSeq(s, 2, Len(s)), old, new)

\* s.startswith(prefix), s.removeprefix(prefix)
str_startswith(s, prefix) == Len(s) >= Len(prefix) /\ SubSeq(s, 1, Len(prefix)) = prefix
str_removeprefix(s, prefix) ==
    IF str_startswith(s, prefix) THEN SubSeq(s, Len(prefix) + 1, Len(s)) ELSE s

\* s.partition(sep) for a one-character separator: head, separator, tail.
str_partition(s, sep) ==
    IF ~str_contains(sep, s) THEN <<s, "", "">>
    ELSE LET i == CHOOSE i \in 1..Len(s) :
                      Char(s, i) = sep /\ \A j \in 1..(i - 1) : Char(s, j) # sep
         IN  <<SubSeq(s, 1, i - 1), sep, SubSeq(s, i + 1, Len(s))>>

\* int(s) for the decimal strings of data references; -1 stands for the
\* ValueError of a string that is no number.
RECURSIVE int_from(_, _)
int_from(s, acc) ==
    IF s = "" THEN acc
    ELSE IF ~IsDigitChar(Char(s, 1)) THEN -1
    ELSE int_from(SubSeq(s, 2, Len(s)), 10 * acc + (Ord[Char(s, 1)] - Ord["0"]))

int(s) == IF s = "" THEN -1 ELSE int_from(s, 0)

\* str(n) for n >= 0
RECURSIVE str(_)
str(n) ==
    IF n < 10 THEN Char(Alphabet, Ord["0"] + n)
    ELSE str(n \div 10) \o Char(Alphabet, Ord["0"] + (n % 10))

(***************************************************************************)
(* Keys (index.py, class Key).  The hex digests are those hashlib gives    *)
(* for the UTF-16LE encoding of the upper-cased names the model uses,      *)
(* abbreviated to their first eight characters; a digest is a string of    *)
(* the characters 0-9 and A-F.  The MD5 digest of "PUAID" has no letter in *)
(* it (50834915292575794224757333825419): the second table entry is the    *)
(* digest of that digest.                                                  *)
(***************************************************************************)
Md5HexDigest ==
    "ROOT" :> "C82638BE" @@ "__SYSTEMCLASS" :> "DBF21B92" @@ "LOW" :> "4960E4BD" @@
    "MID" :> "5088E683" @@ "TOP" :> "6F46EC44" @@ "PUAID" :> "50834915" @@
    "GONE" :> "AFE825E2" @@ "50834915" :> "8375E038" @@ "__NAMESPACE" :> "E5844D16" @@
    "12" :> "08985FAA" @@ "ABC" :> "716774B5"

Sha256HexDigest ==
    "ROOT" :> "E8C4F992" @@ "__SYSTEMCLASS" :> "FCBAF5A1" @@ "LOW" :> "B21F3C72" @@
    "MID" :> "4E73311A" @@ "TOP" :> "473410A1" @@ "PUAID" :> "B40FBE42" @@
    "GONE" :> "51F10427" @@ "__NAMESPACE" :> "64659AB9" @@ "50834915" :> "CF7800BD" @@
    "12" :> "7FE63D4F" @@ "ABC" :> "58FF2E90"

ROOT_NAMESPACE_NAME == "root"
SYSTEM_NAMESPACE_NAME == "__SystemClass"

\* Key.__init__: the parts joined by "/" with the boundary "/" stripped.
Key(parts) == str_strip(str_join(parts, "/"), "/")

\* Key._hash of name.upper().encode("utf-16-le"): MD5 under XP, else SHA-256,
\* as upper-case hex.
Key__hash(xp, upper_name) ==
    IF xp THEN Md5HexDigest[upper_name] ELSE Sha256HexDigest[upper_name]

\* The test of line 161: name.isupper() and all(c in string.hexdigits ...).
IsVerbatimDigest(name) ==
    /\ str_isupper(name)
    /\ \A i \in 1..Len(name) : IsHexDigitChar(Char(name, i))

\* Key._path with a name (lines 161-166).
Key__path(xp, key, prefix, name) ==
    LET digest == IF IsVerbatimDigest(name) THEN name
                  ELSE Key__hash(xp, str_upper(name))
    IN  Key(<< key, prefix \o "_" \o digest >>)

\* Key._path with name None (lines 158-159).
Key__path_none(key, prefix) == Key(<< key, prefix >>)

Key_NS(xp, key, name) == Key__path(xp, key, "NS", name)
Key_CD(xp, key, name) == Key__path(xp, key, "CD", name)
Key_CD_none(key) == Key__path_none(key, "CD")

\* Key.parts: the [prefix, digest] of every segment (lines 176-178).
Key_parts_of(segs) == [i \in 1..Len(segs) |-> str_split(segs[i], "_")]
Key_parts(key) == Key_parts_of(str_split(key, "/"))

\* Key.__getitem__ on the parts: a segment that is not prefix_digest is a
\* ValueError of the unpacking, a prefix that is absent a KeyError; of
\* several segments with the prefix the last one stays in the dict.
Key_getitem_of(pairs, item) ==
    IF \E i \in 1..Len(pairs) : Len(pairs[i]) # 2
    THEN [err |-> "ValueError", value |-> ""]
    ELSE IF \A i \in 1..Len(pairs) : pairs[i][1] # item
    THEN [err |-> "KeyError", value |-> ""]
    ELSE [err |-> "None",
          value |-> pairs[CHOOSE i \in 1..Len(pairs) :
                             /\ pairs[i][1] = item
                             /\ \A j \in (i + 1)..Len(pairs) : pairs[j][1] # item][2]]

Key_getitem(key, item) == Key_getitem_of(Key_parts(key), item)

Key_is_data_reference(key) == str_contains(".", key)

\* Line 172 with the index counted from one: split(".")[idx - 1].
Key__data_part_from_one(parts, idx) ==
    IF idx > Len(parts) THEN -1 ELSE int(parts[idx])

\* Key._data_part, line 172, with the int of the caller.
Key__data_part_of(parts, idx) ==
    IF idx + 1 > Len(parts) THEN -1 ELSE int(parts[idx + 1])

\* Key._data_part; -1 stands for the ValueError.
Key__data_part(key, idx) ==
    IF ~Key_is_data_reference(key) THEN -1
    ELSE Key__data_part_of(str_split(key, "."), idx)

Key_data_page(key) == Key__data_part(key, 1)
Key_data_id(key) == Key__data_part(key, 2)
Key_data_length(key) == Key__data_part(key, 3)

(***************************************************************************)
(* The index (index.py, class Index).  pages maps a logical page number to *)
(* [keys, children]: record_count keys and record_count + 1 child          *)
(* pointers.  INDEX_PAGE_INVALID is 0xFFFFFFFF in the code; child pointers *)
(* are only compared, and -1 stands for it here.                           *)
(***************************************************************************)
INDEX_PAGE_INVALID == -1
INDEX_PAGE_INVALID2 == 0

RECURSIVE Index__lookup(_, _, _, _)
RECURSIVE Index__lookup_child(_, _, _, _, _)

\* Index._lookup_child with the test against the second sentinel dropped:
\* only 0xFFFFFFFF stops the descent.
Index__lookup_child_follow_zero(pages, key, pno, i, direction) ==
    LET child_idx == pages[pno].children[i + direction + 1] IN
    IF child_idx = INDEX_PAGE_INVALID THEN <<>>
    ELSE Index__lookup(pages, key, child_idx, 0)

\* Index._lookup_child: a sentinel child is not followed.
Index__lookup_child(pages, key, pno, i, direction) ==
    LET child_idx == pages[pno].children[i + direction + 1] IN
    IF child_idx \in { INDEX_PAGE_INVALID, INDEX_PAGE_INVALID2 } THEN <<>>
    ELSE Index__lookup(pages, key, child_idx, 0)

\* Index._lookup with lines 49-53 reduced to "continue": the right child of
\* the last key is not searched when the target is greater than that key.
Index__lookup_no_last_right(pages, key, pno, i) ==
    LET count == Len(pages[pno].keys) IN
    IF i >= count THEN <<>>
    ELSE LET page_key == pages[pno].keys[i + 1]
             left == Index__lookup_child(pages, key, pno, i, 0)
             right == Index__lookup_child(pages, key, pno, i, 1)
             rest == Index__lookup(pages, key, pno, i + 1)
         IN  IF str_contains(key, page_key)
             THEN left \o << page_key >> \o right
                      \o (IF i = count - 1 THEN <<>> ELSE rest)
             ELSE IF str_less(key, page_key) THEN left
             ELSE rest

\* Index._lookup, the loop from key position i (counted from 0) onwards.
Index__lookup(pages, key, pno, i) ==
    LET count == Len(pages[pno].keys) IN
    IF i >= count THEN <<>>
    ELSE LET page_key == pages[pno].keys[i + 1]
             left == Index__lookup_child(pages, key, pno, i, 0)
             right == Index__lookup_child(pages, key, pno, i, 1)
             rest == Index__lookup(pages, key, pno, i + 1)
         IN  IF str_contains(key, page_key)
             THEN left \o << page_key >> \o right
                      \o (IF i = count - 1 THEN <<>> ELSE rest)
             ELSE IF str_less(key, page_key) THEN left
             ELSE IF str_less(page_key, key)
                  THEN (IF i = count - 1 THEN right ELSE rest)
                  ELSE rest

\* Index.lookup
Index_lookup(index, key) == Index__lookup(index.pages, key, index.root, 0)

\* Lines 182-185 with the test for several references dropped.
Key_reference_first(refs) ==
    IF refs # <<>> THEN [err |-> "None", found |-> TRUE, ref |-> refs[1]]
    ELSE [err |-> "None", found |-> FALSE, ref |-> ""]

\* Lines 182-185 on the references found: None for no match, the match for
\* one, ValueError for more.
Key_reference_of(refs) ==
    IF refs # <<>> /\ Len(refs) > 1 THEN [err |-> "ValueError", found |-> FALSE, ref |-> ""]
    ELSE IF refs # <<>> THEN [err |-> "None", found |-> TRUE, ref |-> refs[1]]
    ELSE [err |-> "None", found |-> FALSE, ref |-> ""]

\* Key.reference
Key_reference(index, key) == Key_reference_of(Index_lookup(index, key))

(***************************************************************************)
(* Class definitions (classes.py).  The object store of the navigator      *)
(* holds, for the data reference (page, id) of a class definition, the     *)
(* record ClassDefinition.__init__ parses from its bytes:                  *)
(*   class_name, super_class_name,                                         *)
(*   property_references: the properties in the order of the definition,   *)
(*       each [name, index, type],                                         *)
(*   default_values_data: [state, values], the bytes of the state table    *)
(*       and the carriers that follow it,                                  *)
(*   property_data: the strings of the data region by offset.              *)
(* A Class is [namespace, cd]: the name of its namespace and the data      *)
(* reference (page, id) of its definition.                                 *)
(***************************************************************************)
Reverse(s) == [i \in 1..Len(s) |-> s[Len(s) + 1 - i]]

ClassDef(c, class_) == c.objects[class_.cd]

\* Objects.get and the parse of the bytes, for a data reference (page, id).
Objects_get(c, cd) ==
    IF cd \in DOMAIN c.objects THEN [err |-> "None", cd |-> cd]
    ELSE [err |-> "IndexError", cd |-> <<>>]

\* Key.object, lines 192-194, on the reference r.
Key_object_of(c, r) ==
    IF r.err # "None" THEN [err |-> r.err, cd |-> <<>>]
    ELSE IF ~r.found THEN [err |-> "ReferenceNotFoundError", cd |-> <<>>]
    ELSE Objects_get(c, << Key_data_page(r.ref), Key_data_id(r.ref) >>)

\* Key.object
Key_object(c, key) == Key_object_of(c, Key_reference(c.index, key))

\* Line 129: the key rebuilt under the system namespace from q["CD"].
CIM_get_class_definition_fallback(c, item) ==
    IF item.err # "None" THEN [err |-> item.err, cd |-> <<>>]
    ELSE Key_object(c, Key_CD(c.type_xp,
                              Key_NS(c.type_xp, Key(<<>>), SYSTEM_NAMESPACE_NAME),
                              item.value))

\* Lines 128-130 on the reference r of q.
CIM_get_class_definition_of(c, q, r) ==
    IF r.err # "None" THEN [err |-> r.err, cd |-> <<>>]
    ELSE IF r.found THEN Key_object(c, q)
    ELSE CIM_get_class_definition_fallback(c, Key_getitem(q, "CD"))

\* CIM.get_class_definition
CIM_get_class_definition(c, q) ==
    CIM_get_class_definition_of(c, q, Key_reference(c.index, q))

\* Line 159: Class(self.cim, self, class_def)
Namespace_class__of(ns, d) ==
    IF d.err # "None" THEN [err |-> d.err, class_ |-> <<>>]
    ELSE [err |-> "None", class_ |-> [namespace |-> ns, cd |-> d.cd]]

\* Namespace.class_
Namespace_class_(c, ns, class_name) ==
    Namespace_class__of(ns,
        CIM_get_class_definition(c,
            Key_CD(c.type_xp, Key_NS(c.type_xp, Key(<<>>), ns), class_name)))

\* Line 248 left out: the list stays in walking order, leaf first.
Class_derivation_unreversed(derivation) == derivation

\* Line 248: derivation.reverse()
Class_derivation_reverse(derivation) == Reverse(derivation)

\* Class.derivation as a whole.  The next class of the walk is a function of
\* the current one, so a walk of more steps than there are definitions
\* revisits a definition and never ends: "Diverges".
RECURSIVE Class_derivation_walk(_, _, _, _, _)
RECURSIVE Class_derivation_next(_, _, _, _, _)

\* Line 246 on the class found for the super-class name.
Class_derivation_next(c, self, next, derivation, fuel) ==
    IF next.err # "None" THEN [err |-> next.err, derivation |-> <<>>]
    ELSE Class_derivation_walk(c, self, next.class_, derivation, fuel - 1)

\* Lines 240-249, one turn of the loop.
Class_derivation_walk(c, self, class_, derivation, fuel) ==
    IF ClassDef(c, class_).super_class_name = ""
    THEN [err |-> "None",
          derivation |-> Class_derivation_reverse(Append(derivation, class_))]
    ELSE IF fuel = 0 THEN [err |-> "Diverges", derivation |-> <<>>]
    ELSE Class_derivation_next(c, self,
             Namespace_class_(c, self.namespace, ClassDef(c, class_).super_class_name),
             Append(derivation, class_), fuel)

Class_derivation(c, self) ==
    Class_derivation_walk(c, self, self, <<>>, Cardinality(DOMAIN c.objects))

\* A dict is the sequence of its [name, value] items in insertion order;
\* d[name] = value replaces the value of a present name in place.
dict_setitem(d, name, value) ==
    IF \E i \in 1..Len(d) : d[i].name = name
    THEN [i \in 1..Len(d) |-> IF d[i].name = name THEN [name |-> name, value |-> value] ELSE d[i]]
    ELSE Append(d, [name |-> name, value |-> value])

dict_has(d, name) == \E i \in 1..Len(d) : d[i].name = name
dict_getitem(d, name) == d[CHOOSE i \in 1..Len(d) : d[i].name = name].value

\* ClassDefinition.properties: the ClassDefinitionProperty of each
\* reference by name; decl is the definition whose data region it reads.
RECURSIVE ClassDefinition_properties_from(_, _, _, _)
ClassDefinition_properties_from(c, cd, i, properties) ==
    LET refs == c.objects[cd].property_references IN
    IF i > Len(refs) THEN properties
    ELSE ClassDefinition_properties_from(c, cd, i + 1,
             dict_setitem(properties, refs[i].name,
                 [name |-> refs[i].name, index |-> refs[i].index,
                  type |-> refs[i].type, decl |-> cd]))

ClassDefinition_properties(c, cd) == ClassDefinition_properties_from(c, cd, 1, <<>>)

\* Line 256 with the assignment made conditional: an ancestor's entry stays.
Class_properties_keep_first(props, self, prop) ==
    IF dict_has(props, prop.name) THEN props
    ELSE dict_setitem(props, prop.name, [class_ |-> self, prop |-> prop])

\* Line 256: props[prop.name] = Property(self, prop)
Class_properties_update(props, self, prop) ==
    dict_setitem(props, prop.name, [class_ |-> self, prop |-> prop])

RECURSIVE Class_properties_of_class(_, _, _, _)
Class_properties_of_class(props, self, cdprops, i) ==
    IF i > Len(cdprops) THEN props
    ELSE Class_properties_of_class(
             Class_properties_update(props, self, cdprops[i].value), self, cdprops, i + 1)

RECURSIVE Class_properties_from(_, _, _, _, _)
Class_properties_from(c, self, derivation, i, props) ==
    IF i > Len(derivation) THEN props
    ELSE Class_properties_from(c, self, derivation, i + 1,
             Class_properties_of_class(props, self,
                 ClassDefinition_properties(c, derivation[i].cd), 1))

\* Lines 253-257 on the derivation d.
Class_properties_of(c, self, d) ==
    IF d.err # "None" THEN [err |-> d.err, props |-> <<>>]
    ELSE [err |-> "None", props |-> Class_properties_from(c, self, d.derivation, 1, <<>>)]

\* Class.properties: the properties of the derivation from root to leaf.
Class_properties(c, self) == Class_properties_of(c, self, Class_derivation(c, self))

\* sorted(props, key=lambda p: p.index): stable, by selection of the first
\* least index.
RECURSIVE sorted_by_index(_)
sorted_by_index(props) ==
    IF props = <<>> THEN <<>>
    ELSE LET m == CHOOSE i \in 1..Len(props) :
                      /\ \A j \in 1..Len(props) : props[i].prop.index <= props[j].prop.index
                      /\ \A j \in 1..(i - 1) : props[j].prop.index > props[i].prop.index
             rest == [k \in 1..(Len(props) - 1) |-> IF k < m THEN props[k] ELSE props[k + 1]]
         IN  <<props[m]>> \o sorted_by_index(rest)

dict_values(d) == [i \in 1..Len(d) |-> d[i].value]

\* PropertyStates._property_state_length
PropertyStates__property_state_length(num_properties) ==
    LET required_bits == 2 * num_properties
        delta_to_nearest_byte == (8 - required_bits) % 8
    IN  (required_bits + delta_to_nearest_byte) \div 8

Pow4(n) == IF n = 0 THEN 1 ELSE IF n = 1 THEN 4 ELSE IF n = 2 THEN 16 ELSE 64

\* PropertyStates.__getitem__ with the shift of line 104 left out.
PropertyStates_getitem_unrotated(state, idx) ==
    IF idx > state.num_properties
    THEN [err |-> "IndexError", is_inherited |-> FALSE, has_default_value |-> FALSE]
    ELSE IF (idx \div 4) + 1 > Len(state.entries)
    THEN [err |-> "IndexError", is_inherited |-> FALSE, has_default_value |-> FALSE]
    ELSE [err |-> "None",
          is_inherited |-> (state.entries[(idx \div 4) + 1] \div 2) % 2 = 1,
          has_default_value |-> state.entries[(idx \div 4) + 1] % 2 = 0]

\* PropertyStates.__getitem__ on [entries, num_properties]
PropertyStates_getitem(state, idx) ==
    IF idx > state.num_properties
    THEN [err |-> "IndexError", is_inherited |-> FALSE, has_default_value |-> FALSE]
    ELSE IF (idx \div 4) + 1 > Len(state.entries)
    THEN [err |-> "IndexError", is_inherited |-> FALSE, has_default_value |-> FALSE]
    ELSE LET byte_of_state == state.entries[(idx \div 4) + 1]
             rotations == idx % 4
             state_flags == (byte_of_state \div Pow4(rotations)) % 4
         IN  [err |-> "None",
              is_inherited |-> (state_flags \div 2) % 2 = 1,
              has_default_value |-> state_flags % 2 = 0]

\* PropertyDefaultValues.__init__: the state table, then one carrier for
\* each property; a blob too short for either ends the read.
PropertyDefaultValues(data, properties) ==
    LET n == Len(properties)
        l == PropertyStates__property_state_length(n)
    IN  IF l > Len(data.state) \/ n > Len(data.values)
        THEN [err |-> "EOFError", state |-> <<>>, default_values |-> <<>>]
        ELSE [err |-> "None",
              state |-> [entries |-> SubSeq(data.state, 1, l), num_properties |-> n],
              default_values |-> SubSeq(data.values, 1, n)]

\* Lines 261-263 on the properties p.
Class_property_default_values_of(c, class_, p) ==
    IF p.err # "None" THEN [err |-> p.err, state |-> <<>>, default_values |-> <<>>]
    ELSE PropertyDefaultValues(ClassDef(c, class_).default_values_data,
                               sorted_by_index(dict_values(p.props)))

\* Class.property_default_values
Class_property_default_values(c, class_) ==
    Class_property_default_values_of(c, class_, Class_properties(c, class_))

\* defaults.state[index]
Class_property_state_of(defaults, index) ==
    IF defaults.err # "None"
    THEN [err |-> defaults.err, is_inherited |-> FALSE, has_default_value |-> FALSE]
    ELSE PropertyStates_getitem(defaults.state, index)

\* The state of a property index on a class: property_default_values.state[index]
Class_property_state(c, class_, index) ==
    Class_property_state_of(Class_property_default_values(c, class_), index)

\* DataRegion.get_string: the string at an offset of the region.
DataRegion_get_string(region, offset) ==
    IF offset \in DOMAIN region THEN [err |-> "None", value |-> region[offset]]
    ELSE [err |-> "Error", value |-> ""]

\* DataRegion.get_value for the scalar types of the model.
DataRegion_get_value(region, value, type) ==
    IF type = "STRING" THEN DataRegion_get_string(region, value)
    ELSE IF type = "UINT32" THEN [err |-> "None", value |-> value]
    ELSE [err |-> "ValueError", value |-> ""]

\* default_values[index] followed by property_data.get_value
Class_stored_default(c, class_, defaults, index, type) ==
    IF index + 1 > Len(defaults.default_values) THEN [err |-> "IndexError", value |-> ""]
    ELSE DataRegion_get_value(ClassDef(c, class_).property_data,
                              defaults.default_values[index + 1], type)

\* Lines 383-384 without the reverse: ancestors are visited root first.
Property_rderivation_root_first(derivation) == derivation

\* Lines 383-384: rderivation = derivation[:]; rderivation.reverse()
Property_rderivation(derivation) == Reverse(derivation)

RECURSIVE Property_default_value_walk(_, _, _, _)
RECURSIVE Property_default_value_ancestor(_, _, _, _, _)

\* Lines 387-398 with the test of lines 389-390 left out: a class without a
\* default value is passed over like one that inherits it.
Property_default_value_ancestor_lenient(c, p, rderivation, i, defaults) ==
    LET state == Class_property_state_of(defaults, p.prop.index) IN
    IF state.err # "None" THEN [err |-> state.err, value |-> ""]
    ELSE IF ~state.has_default_value \/ state.is_inherited
    THEN Property_default_value_walk(c, p, rderivation, i + 1)
    ELSE Class_stored_default(c, rderivation[i], defaults, p.prop.index, p.prop.type)

\* Lines 387-398: one ancestor, with its defaults.
Property_default_value_ancestor(c, p, rderivation, i, defaults) ==
    LET state == Class_property_state_of(defaults, p.prop.index) IN
    IF state.err # "None" THEN [err |-> state.err, value |-> ""]
    ELSE IF ~state.has_default_value THEN [err |-> "Error", value |-> ""]
    ELSE IF state.is_inherited THEN Property_default_value_walk(c, p, rderivation, i + 1)
    ELSE Class_stored_default(c, rderivation[i], defaults, p.prop.index, p.prop.type)

\* Lines 386-400: the loop over the ancestors, from position i.
Property_default_value_walk(c, p, rderivation, i) ==
    IF i > Len(rderivation) THEN [err |-> "Error", value |-> ""]
    ELSE Property_default_value_ancestor(c, p, rderivation, i,
             Class_property_default_values(c, rderivation[i]))

\* Lines 383-400 on the derivation d of the class.
Property_default_value_inherited(c, p, d) ==
    IF d.err # "None" THEN [err |-> d.err, value |-> ""]
    ELSE Property_default_value_walk(c, p, Property_rderivation(d.derivation), 1)

\* Lines 373-400 on the defaults of the class.
Property_default_value_of(c, p, defaults) ==
    LET state == Class_property_state_of(defaults, p.prop.index) IN
    IF state.err # "None" THEN [err |-> state.err, value |-> ""]
    ELSE IF ~state.has_default_value THEN [err |-> "ValueError", value |-> ""]
    ELSE IF ~state.is_inherited
         THEN Class_stored_default(c, p.class_, defaults, p.prop.index, p.prop.type)
    ELSE Property_default_value_inherited(c, p, Class_derivation(c, p.class_))

\* Property.default_value
Property_default_value(c, p) ==
    Property_default_value_of(c, p, Class_property_default_values(c, p.class_))

(***************************************************************************)
(* SpecNav: the navigator over one opened repository (cim.py).             *)
(* The repositories of the model hold the class definitions Low, Mid, Top  *)
(* and PUAID under the namespaces root and __SystemClass.  PUAID is a name *)
(* whose MD5 digest has decimal digits only.  A repository is described by *)
(*   xp: the layout; mid, top, puaid: where the class is stored;           *)
(*   dup: a second index key for Low;                                      *)
(*   superLow, superMid: super_class_name of Low and of Mid;               *)
(*   stLow, stMid, stTop: the two state bits of property P on the class;   *)
(*   lowP, midP: whether Low and Mid declare P again.                      *)
(* Top declares P (index 0, a string), Mid declares Q (index 1, uint32).   *)
(***************************************************************************)
MaxWalk == 4

ClassNames == {"Low", "Mid", "Top", "PUAID", "Gone"}
Namespaces == {ROOT_NAMESPACE_NAME, SYSTEM_NAMESPACE_NAME}

PropP == [name |-> "P", index |-> 0, type |-> "STRING"]
PropQ == [name |-> "Q", index |-> 1, type |-> "UINT32"]

\* Repositories that differ in where the classes are stored and in the
\* super-class names.
LookupRepositories ==
    [xp : BOOLEAN, mid : {"root", "sys", "none"}, top : {"root", "sys", "both"},
     puaid : {"sys", "none"}, dup : BOOLEAN,
     superLow : {"Mid", "PUAID"}, superMid : {"Top", "Low"},
     stLow : {2}, stMid : {2}, stTop : {0}, lowP : {FALSE}, midP : {FALSE}]

\* Repositories that differ in the state bits of P and in its declarations.
DefaultRepositories ==
    [xp : {FALSE}, mid : {"root", "sys"}, top : {"root"},
     puaid : {"none"}, dup : {FALSE},
     superLow : {"Mid"}, superMid : {"Top"},
     stLow : {0, 2}, stMid : 0..3, stTop : {0, 1, 2}, lowP : BOOLEAN, midP : BOOLEAN]

Repositories == LookupRepositories \cup DefaultRepositories

\* The definitions a repository stores: namespace, class name, the page and
\* id of the object, its length.
StoredEntries(r) ==
    {[ns |-> ROOT_NAMESPACE_NAME, name |-> "Low", cd |-> <<1, 1>>, length |-> 120]}
    \cup (IF r.dup
          THEN {[ns |-> ROOT_NAMESPACE_NAME, name |-> "Low", cd |-> <<3, 1>>, length |-> 120]}
          ELSE {})
    \cup (IF r.mid = "root"
          THEN {[ns |-> ROOT_NAMESPACE_NAME, name |-> "Mid", cd |-> <<1, 2>>, length |-> 130]}
          ELSE {})
    \cup (IF r.mid = "sys"
          THEN {[ns |-> SYSTEM_NAMESPACE_NAME, name |-> "Mid", cd |-> <<2, 2>>, length |-> 130]}
          ELSE {})
    \cup (IF r.top \in {"root", "both"}
          THEN {[ns |-> ROOT_NAMESPACE_NAME, name |-> "Top", cd |-> <<1, 3>>, length |-> 140]}
          ELSE {})
    \cup (IF r.top \in {"sys", "both"}
          THEN {[ns |-> SYSTEM_NAMESPACE_NAME, name |-> "Top", cd |-> <<2, 3>>, length |-> 141]}
          ELSE {})
    \cup (IF r.puaid = "sys"
          THEN {[ns |-> SYSTEM_NAMESPACE_NAME, name |-> "PUAID", cd |-> <<2, 4>>, length |-> 150]}
          ELSE {})

\* The index key under which a definition is stored: both digests are
\* digests of the upper-cased names.
StoredKey(xp, e) ==
    "NS_" \o Key__hash(xp, str_upper(e.ns)) \o "/CD_" \o Key__hash(xp, str_upper(e.name))
        \o "." \o str(e.cd[1]) \o "." \o str(e.cd[2]) \o "." \o str(e.length)

\* The class definition parsed from a stored object.
StoredDefinition(r, e) ==
    LET st == IF e.name = "Low" THEN r.stLow
              ELSE IF e.name = "Mid" THEN r.stMid
              ELSE IF e.name = "Top" THEN r.stTop ELSE 2
    IN  [class_name |-> e.name,
         super_class_name |->
             IF e.name = "Low" THEN r.superLow
             ELSE IF e.name = "Mid" THEN r.superMid
             ELSE IF e.name = "PUAID" THEN "Top" ELSE "",
         property_references |->
             IF e.name = "Top" THEN <<PropP>>
             ELSE IF e.name = "Mid" THEN (IF r.midP THEN <<PropQ, PropP>> ELSE <<PropQ>>)
             ELSE IF e.name = "Low" THEN (IF r.lowP THEN <<PropP>> ELSE <<>>)
             ELSE <<>>,
         default_values_data |-> [state |-> <<st>>, values |-> <<8, 7>>],
         property_data |-> (0 :> e.name) @@ (8 :> (e.ns \o "." \o e.name \o ".P"))]

\* The keys of an index page are kept in ascending order.
RECURSIVE SortedKeys(_)
SortedKeys(S) ==
    IF S = {} THEN <<>>
    ELSE LET least == CHOOSE k \in S : \A o \in S : o = k \/ str_less(k, o)
         IN  <<least>> \o SortedKeys(S \ {least})

\* An index of one leaf page, the root.
LeafIndex(keys) ==
    [root |-> 1,
     pages |-> (1 :> [keys |-> keys,
                      children |-> [i \in 1..(Len(keys) + 1) |-> INDEX_PAGE_INVALID]])]

StoredObjects(r, entries) ==
    [cd \in {e.cd : e \in entries} |-> StoredDefinition(r, CHOOSE e \in entries : e.cd = cd)]

\* The session CIM.__init__ leaves: the layout, the index and the objects by
\* data reference.
Repository(r) ==
    [type_xp |-> r.xp,
     index |-> LeafIndex(SortedKeys({StoredKey(r.xp, e) : e \in StoredEntries(r)})),
     objects |-> StoredObjects(r, StoredEntries(r))]

NavIdle ==
    [pc |-> "idle", q |-> "", ns |-> "", name |-> "", err |-> "None", ref |-> "",
     self |-> <<>>, class_ |-> <<>>, derivation |-> <<>>, props |-> <<>>,
     prop |-> "", value |-> ""]

InitNav ==
    /\ \E r \in Repositories : cim = Repository(r)
    /\ nav = NavIdle
    /\ calc = <<>>
    /\ mappings = <<>> /\ fcm = FcmIdle
    /\ omap = <<>> /\ ofile = <<>> /\ okey = <<>> /\ og = <<>>

\* The keys the navigator asks a reference for: a namespace, a class of a
\* namespace.
QueryKeys(xp) ==
    {Key_NS(xp, Key(<<>>), ns) : ns \in Namespaces}
    \cup {Key_CD(xp, Key_NS(xp, Key(<<>>), ns), name) : ns \in Namespaces, name \in ClassNames}

\* key.reference()
CallReference ==
    /\ nav.pc = "idle"
    /\ \E q \in QueryKeys(cim.type_xp) :
       \E r \in {Key_reference(cim.index, q)} :
         nav' = [nav EXCEPT !.pc = "reference", !.q = q, !.err = r.err,
                            !.ref = IF r.found THEN r.ref ELSE "None"]
    /\ UNCHANGED <<cim, mapVars, objVars, calc>>

\* namespace.class_(name)
CallClass ==
    /\ nav.pc = "idle"
    /\ \E ns \in Namespaces, name \in ClassNames :
       \E r \in {Namespace_class_(cim, ns, name)} :
         nav' = [nav EXCEPT !.pc = IF r.err = "None" THEN "class" ELSE "class_raised",
                            !.ns = ns, !.name = name, !.err = r.err, !.self = r.class_]
    /\ UNCHANGED <<cim, mapVars, objVars, calc>>

\* class.derivation, lines 237-238
DerivationEnter ==
    /\ nav.pc = "class"
    /\ nav' = [nav EXCEPT !.pc = "walk", !.class_ = nav.self, !.derivation = <<>>]
    /\ UNCHANGED <<cim, mapVars, objVars, calc>>

\* class.derivation, one turn of the loop (lines 240-246) and, on leaving
\* it, lines 248-249
DerivationStep ==
    /\ nav.pc = "walk"
    /\ Len(nav.derivation) < MaxWalk
    /\ \E d \in {Append(nav.derivation, nav.class_)} :
          IF ClassDef(cim, nav.class_).super_class_name = ""
          THEN nav' = [nav EXCEPT !.pc = "derived",
                                  !.derivation = Class_derivation_reverse(d)]
          ELSE \E next \in {Namespace_class_(cim, nav.self.namespace,
                                              ClassDef(cim, nav.class_).super_class_name)} :
                  nav' = IF next.err # "None"
                         THEN [nav EXCEPT !.pc = "derivation_raised", !.err = next.err,
                                          !.derivation = d]
                         ELSE [nav EXCEPT !.derivation = d, !.class_ = next.class_]
    /\ UNCHANGED <<cim, mapVars, objVars, calc>>

\* class.properties
CallProperties ==
    /\ nav.pc = "derived"
    /\ \E p \in {Class_properties(cim, nav.self)} :
       nav' = [nav EXCEPT !.pc = IF p.err = "None" THEN "properties" ELSE "properties_raised",
                          !.err = p.err, !.props = p.props]
    /\ UNCHANGED <<cim, mapVars, objVars, calc>>

\* class.properties[name].default_value
CallDefaultValue ==
    /\ nav.pc = "properties"
    /\ \E i \in 1..Len(nav.props) :
       \E v \in {Property_default_value(cim, nav.props[i].value)} :
         nav' = [nav EXCEPT !.pc = IF v.err = "None" THEN "default" ELSE "default_raised",
                            !.prop = nav.props[i].name, !.err = v.err, !.value = v.value]
    /\ UNCHANGED <<cim, mapVars, objVars, calc>>

NextNav ==
    \/ CallReference
    \/ CallClass
    \/ DerivationEnter
    \/ DerivationStep
    \/ CallProperties
    \/ CallDefaultValue

SpecNav == InitNav /\ [][NextNav]_vars

(***************************************************************************)
(* SpecStates: a table of property states read from a stream and asked for *)
(* the state of an index (classes.py, class PropertyStates).  The stream   *)
(* holds the bytes of the table and one byte more.                         *)
(***************************************************************************)
MaxProperties == 9

ByteValues == {0, 27, 228}

RECURSIVE ByteStreams(_)
ByteStreams(n) ==
    IF n = 0 THEN {<<>>}
    ELSE {<<b>> \o t : b \in ByteValues, t \in ByteStreams(n - 1)}

InitStates ==
    /\ \E n \in 0..MaxProperties :
       \E fh \in ByteStreams(PropertyStates__property_state_length(MaxProperties) + 1) :
          calc = [pc |-> "fh", num_properties |-> n, fh |-> fh, entries |-> <<>>,
                  idx |-> 0, state |-> <<>>]
    /\ mappings = <<>> /\ fcm = FcmIdle
    /\ omap = <<>> /\ ofile = <<>> /\ okey = <<>> /\ og = <<>>
    /\ cim = <<>> /\ nav = <<>>

\* PropertyStates.__init__: line 96 reads the bytes of the table.
PropertyStatesNew ==
    /\ calc.pc = "fh"
    /\ calc' = [calc EXCEPT
                  !.pc = "states",
                  !.entries = SubSeq(calc.fh, 1,
                                  PropertyStates__property_state_length(calc.num_properties))]
    /\ UNCHANGED <<mapVars, objVars, navVars>>

\* states[idx]
PropertyStatesGetitem ==
    /\ calc.pc = "states"
    /\ \E idx \in 0..(calc.num_properties + 1) :
          calc' = [calc EXCEPT
                     !.pc = "state", !.idx = idx,
                     !.state = PropertyStates_getitem(
                                   [entries |-> calc.entries,
                                    num_properties |-> calc.num_properties], idx)]
    /\ UNCHANGED <<mapVars, objVars, navVars>>

NextStates == PropertyStatesNew \/ PropertyStatesGetitem

SpecStates == InitStates /\ [][NextStates]_vars

(***************************************************************************)
(* Instances (classes.py, class ClassInstance; cim.py, Class.instances).   *)
(* A stored instance is [state, toc, data]: the bytes of its table of      *)
(* property states, the carrier of each property by index, the strings of  *)
(* its data region by offset.  A property reference of a class definition  *)
(* carries qualifiers: the sequence of the [key, value] of its qualifier   *)
(* references.                                                             *)
(***************************************************************************)
PROP_QUALIFIER_KEY == "PROP_QUALIFIER_KEY"
NAMESPACE_CLASS_NAME == "__namespace"

Key_CI(xp, key, name) == Key__path(xp, key, "CI", name)
Key_IL(xp, key, name) == Key__path(xp, key, "IL", name)
Key_IL_none(key) == Key__path_none(key, "IL")

\* Key.references
Key_references(index, key) == Index_lookup(index, key)

\* ClassDefinitionProperty.qualifiers (lines 150-153) of the reference a
\* property was built from: the qualifiers by key, a later one replacing an
\* earlier one of the same key.
RECURSIVE Qualifiers_from(_, _, _)
Qualifiers_from(refs, i, qualifiers) ==
    IF i > Len(refs) THEN qualifiers
    ELSE Qualifiers_from(refs, i + 1, dict_setitem(qualifiers, refs[i].key, refs[i].value))

ClassDefinitionProperty_qualifiers(c, prop) ==
    LET refs == c.objects[prop.decl].property_references
        last == CHOOSE i \in 1..Len(refs) :
                    /\ refs[i].name = prop.name
                    /\ \A j \in (i + 1)..Len(refs) : refs[j].name # prop.name
    IN  Qualifiers_from(refs[last].qualifiers, 1, <<>>)

\* Lines 255-257: the name is appended when the qualifiers hold the key
\* qualifier with the value True.
ClassDefinition_keys_append(keys, prop_name, qualifiers) ==
    IF \E i \in 1..Len(qualifiers) :
          qualifiers[i].name = PROP_QUALIFIER_KEY /\ qualifiers[i].value = "True"
    THEN Append(keys, prop_name)
    ELSE keys

RECURSIVE ClassDefinition_keys_from(_, _, _, _)
ClassDefinition_keys_from(c, properties, i, keys) ==
    IF i > Len(properties) THEN keys
    ELSE ClassDefinition_keys_from(c, properties, i + 1,
             ClassDefinition_keys_append(keys, properties[i].name,
                 ClassDefinitionProperty_qualifiers(c, properties[i].value)))

\* ClassDefinition.keys: over the properties of the definition itself.
ClassDefinition_keys(c, cd) ==
    ClassDefinition_keys_from(c, ClassDefinition_properties(c, cd), 1, <<>>)

\* ClassInstance.__init__ on the properties p of the class: the table of
\* states for len(class_.properties) properties, then one carrier for each.
ClassInstance_of(class_, fh, p) ==
    IF p.err # "None"
    THEN [err |-> p.err, class_ |-> class_, property_states |-> <<>>, toc |-> <<>>,
          data |-> <<>>]
    ELSE IF \/ PropertyStates__property_state_length(Len(p.props)) > Len(fh.state)
            \/ Len(p.props) > Len(fh.toc)
    THEN [err |-> "EOFError", class_ |-> class_, property_states |-> <<>>, toc |-> <<>>,
          data |-> <<>>]
    ELSE [err |-> "None", class_ |-> class_,
          property_states |->
              [entries |-> SubSeq(fh.state, 1,
                               PropertyStates__property_state_length(Len(p.props))),
               num_properties |-> Len(p.props)],
          toc |-> SubSeq(fh.toc, 1, Len(p.props)),
          data |-> fh.data]

ClassInstance(c, class_, fh) == ClassInstance_of(class_, fh, Class_properties(c, class_))

\* Lines 314-318: the value of one property under its state; the state is
\* (use_default_value, is_initialized).
ClassInstance_value_of(r) == [err |-> r.err, value |-> r.value, is_initialized |-> TRUE]

ClassInstance_value(c, self, p, state) ==
    IF state.err # "None" THEN [err |-> state.err, value |-> "", is_initialized |-> FALSE]
    ELSE IF ~state.has_default_value
    THEN [err |-> "None", value |-> "None", is_initialized |-> FALSE]
    ELSE IF state.is_inherited
    THEN ClassInstance_value_of(Property_default_value(c, p))
    ELSE IF p.prop.index + 1 > Len(self.toc)
    THEN [err |-> "IndexError", value |-> "", is_initialized |-> FALSE]
    ELSE ClassInstance_value_of(
             DataRegion_get_value(self.data, self.toc[p.prop.index + 1], p.prop.type))

\* Lines 311-320: the loop over class_.properties.values().
RECURSIVE ClassInstance_properties_from(_, _, _, _, _)
RECURSIVE ClassInstance_properties_next(_, _, _, _, _, _)
ClassInstance_properties_next(c, self, props, i, properties, v) ==
    IF v.err # "None" THEN [err |-> v.err, props |-> <<>>]
    ELSE ClassInstance_properties_from(c, self, props, i + 1,
             dict_setitem(properties, props[i].name, v))

ClassInstance_properties_from(c, self, props, i, properties) ==
    IF i > Len(props) THEN [err |-> "None", props |-> properties]
    ELSE ClassInstance_properties_next(c, self, props, i, properties,
             ClassInstance_value(c, self, props[i].value,
                 PropertyStates_getitem(self.property_states, props[i].value.prop.index)))

ClassInstance_properties_of(c, self, p) ==
    IF p.err # "None" THEN [err |-> p.err, props |-> <<>>]
    ELSE ClassInstance_properties_from(c, self, p.props, 1, <<>>)

\* ClassInstance.properties
ClassInstance_properties(c, self) ==
    ClassInstance_properties_of(c, self, Class_properties(c, self.class_))

\* Lines 328-329: key[prop_name] = self.properties[prop_name].value
RECURSIVE ClassInstance_key_from(_, _, _, _)
ClassInstance_key_from(properties, keys, i, key) ==
    IF i > Len(keys) THEN [err |-> "None", key |-> key]
    ELSE IF ~dict_has(properties, keys[i]) THEN [err |-> "KeyError", key |-> <<>>]
    ELSE IF ~dict_getitem(properties, keys[i]).is_initialized
    THEN [err |-> "ValueError", key |-> <<>>]
    ELSE ClassInstance_key_from(properties, keys, i + 1,
             dict_setitem(key, keys[i], dict_getitem(properties, keys[i]).value))

ClassInstance_key_of(keys, p) ==
    IF keys = <<>> THEN [err |-> "None", key |-> <<>>]
    ELSE IF p.err # "None" THEN [err |-> p.err, key |-> <<>>]
    ELSE ClassInstance_key_from(p.props, keys, 1, <<>>)

\* ClassInstance.key: the properties are computed when the first key is read.
ClassInstance_key(c, self) ==
    ClassInstance_key_of(ClassDefinition_keys(c, self.class_.cd),
                         ClassInstance_properties(c, self))

\* InstanceKey.__str__
InstanceKey_str(key) ==
    IF Len(key) = 0 THEN "default"
    ELSE str_join([i \in 1..Len(key) |-> key[i].name \o "=" \o key[i].value], ";")

\* One turn of the loop of Class.instances, lines 289-292, on the object o
\* of a reference: the key of the instance and its string.
Class_instances_key_of(k) ==
    IF k.err # "None" THEN [err |-> k.err, key |-> <<>>, ikey |-> ""]
    ELSE [err |-> "None", key |-> k.key, ikey |-> InstanceKey_str(k.key)]

Class_instances_instance_key(c, ci) ==
    IF ci.err # "None" THEN [err |-> ci.err, key |-> <<>>, ikey |-> ""]
    ELSE Class_instances_key_of(ClassInstance_key(c, ci))

Class_instances_key(c, self, o) ==
    IF o.err # "None" THEN [err |-> o.err, key |-> <<>>, ikey |-> ""]
    ELSE Class_instances_instance_key(c, ClassInstance(c, self, c.objects[o.cd]))

\* Lines 294-296 with the test left out: every instance is yielded.
Class_instances_yield_all(yielded, ref, k) ==
    Append(yielded, [ref |-> ref, key |-> k.key, ikey |-> k.ikey])

\* Lines 294-296: an instance is yielded when the string of its key was not
\* yielded before.
Class_instances_yield(yielded, ref, k) ==
    IF \E j \in 1..Len(yielded) : yielded[j].ikey = k.ikey THEN yielded
    ELSE Append(yielded, [ref |-> ref, key |-> k.key, ikey |-> k.ikey])

RECURSIVE Class_instances_from(_, _, _, _, _)
RECURSIVE Class_instances_next(_, _, _, _, _, _)
Class_instances_next(c, self, refs, i, yielded, k) ==
    IF k.err # "None" THEN [err |-> k.err, instances |-> yielded]
    ELSE Class_instances_from(c, self, refs, i + 1,
                              Class_instances_yield(yielded, refs[i], k))

Class_instances_from(c, self, refs, i, yielded) ==
    IF i > Len(refs) THEN [err |-> "None", instances |-> yielded]
    ELSE Class_instances_next(c, self, refs, i, yielded,
             Class_instances_key(c, self, Key_object(c, refs[i])))

\* Class.instances, consumed to its end or to the exception that ends it:
\* the instances yielded, each with its reference, key and key string.
Class_instances(c, self) ==
    Class_instances_from(c, self,
        Key_references(c.index,
            Key_IL_none(Key_CI(c.type_xp,
                               Key_NS(c.type_xp, Key(<<>>), self.namespace),
                               ClassDef(c, self).class_name))),
        1, <<>>)

\* instance.key == key on two dicts: the same items, in any order.
dict_eq(a, b) == {a[i] : i \in 1..Len(a)} = {b[i] : i \in 1..Len(b)}

\* Class.instance on the enumeration e: the first instance yielded whose key
\* equals the key asked for; the exception that ended the enumeration when
\* none did before it; IndexError at the end of the enumeration.
Class_instance_of(e, key) ==
    IF \E i \in 1..Len(e.instances) : dict_eq(e.instances[i].key, key)
    THEN [err |-> "None",
          instance |-> e.instances[CHOOSE i \in 1..Len(e.instances) :
                           /\ dict_eq(e.instances[i].key, key)
                           /\ \A j \in 1..(i - 1) : ~dict_eq(e.instances[j].key, key)]]
    ELSE IF e.err # "None" THEN [err |-> e.err, instance |-> <<>>]
    ELSE [err |-> "IndexError", instance |-> <<>>]

Class_instance(c, self, key) == Class_instance_of(Class_instances(c, self), key)

\* An object of Python with its type: a str and a Namespace of the same
\* name are different objects, and == between them is False.
PyStr(s) == [type |-> "str", value |-> s]
PyNamespace(name) == [type |-> "Namespace", value |-> name]

\* Lines 201-203: the test is on ns.name, the set receives ns.
Namespace_namespaces_yield(state, name) ==
    IF PyStr(name) \in state.yielded THEN state
    ELSE [out |-> Append(state.out, name),
          yielded |-> state.yielded \cup {PyNamespace(name)}]

\* Line 199: class_instance.properties['Name'].value
Namespace_namespaces_name_of(p) ==
    IF p.err # "None" THEN [err |-> p.err, value |-> ""]
    ELSE IF ~dict_has(p.props, "Name") THEN [err |-> "KeyError", value |-> ""]
    ELSE IF ~dict_getitem(p.props, "Name").is_initialized
    THEN [err |-> "ValueError", value |-> ""]
    ELSE [err |-> "None", value |-> dict_getitem(p.props, "Name").value]

Namespace_namespaces_instance_name(c, ci) ==
    IF ci.err # "None" THEN [err |-> ci.err, value |-> ""]
    ELSE Namespace_namespaces_name_of(ClassInstance_properties(c, ci))

Namespace_namespaces_name(c, class_def, o) ==
    IF o.err # "None" THEN [err |-> o.err, value |-> ""]
    ELSE Namespace_namespaces_instance_name(c, ClassInstance(c, class_def, c.objects[o.cd]))

\* Lines 205-206 at the end of the loop.
Namespace_namespaces_end(self, state) ==
    [err |-> "None",
     namespaces |-> IF self = ROOT_NAMESPACE_NAME
                    THEN Append(state.out, SYSTEM_NAMESPACE_NAME) ELSE state.out]

RECURSIVE Namespace_namespaces_from(_, _, _, _, _, _)
RECURSIVE Namespace_namespaces_next(_, _, _, _, _, _, _)
Namespace_namespaces_next(c, self, class_def, refs, i, state, n) ==
    IF n.err # "None" THEN [err |-> n.err, namespaces |-> state.out]
    ELSE Namespace_namespaces_from(c, self, class_def, refs, i + 1,
             Namespace_namespaces_yield(state, self \o "\\" \o n.value))

Namespace_namespaces_from(c, self, class_def, refs, i, state) ==
    IF i > Len(refs) THEN Namespace_namespaces_end(self, state)
    ELSE Namespace_namespaces_next(c, self, class_def, refs, i, state,
             Namespace_namespaces_name(c, class_def, Key_object(c, refs[i])))

Namespace_namespaces_of(c, self, cls) ==
    IF cls.err # "None" THEN [err |-> cls.err, namespaces |-> <<>>]
    ELSE Namespace_namespaces_from(c, self, cls.class_,
             Key_references(c.index,
                 Key_IL_none(Key_CI(c.type_xp, Key_NS(c.type_xp, Key(<<>>), self),
                                    NAMESPACE_CLASS_NAME))),
             1, [out |-> <<>>, yielded |-> {}])

\* Namespace.namespaces, consumed to its end or to the exception that ends
\* it: the names of the namespaces yielded.
Namespace_namespaces(c, self) ==
    Namespace_namespaces_of(c, self,
        Namespace_class_(c, SYSTEM_NAMESPACE_NAME, NAMESPACE_CLASS_NAME))

\* Lines 167-169 and 177-179: a class is yielded when its name was not
\* yielded before.
Namespace_classes_yield(c, yielded, class_) ==
    IF \E j \in 1..Len(yielded) : yielded[j].name = ClassDef(c, class_).class_name
    THEN yielded
    ELSE Append(yielded, [name |-> ClassDef(c, class_).class_name, class_ |-> class_])

\* Lines 172-179: the classes of the references of NS(self).CD.
RECURSIVE Namespace_classes_own(_, _, _, _, _)
RECURSIVE Namespace_classes_own_next(_, _, _, _, _, _)
Namespace_classes_own_next(c, self, refs, i, yielded, d) ==
    IF d.err # "None" THEN [err |-> d.err, classes |-> yielded]
    ELSE Namespace_classes_own(c, self, refs, i + 1,
             Namespace_classes_yield(c, yielded, [namespace |-> self, cd |-> d.cd]))

Namespace_classes_own(c, self, refs, i, yielded) ==
    IF i > Len(refs) THEN [err |-> "None", classes |-> yielded]
    ELSE Namespace_classes_own_next(c, self, refs, i, yielded,
             CIM_get_class_definition(c, refs[i]))

Namespace_classes_references(c, self) ==
    Key_references(c.index, Key_CD_none(Key_NS(c.type_xp, Key(<<>>), self)))

\* Lines 165-169: the classes of the system namespace, each given the
\* enumerating namespace.
RECURSIVE Namespace_classes_system(_, _, _, _, _)
Namespace_classes_system(c, self, system, i, yielded) ==
    IF i > Len(system) THEN yielded
    ELSE Namespace_classes_system(c, self, system, i + 1,
             Namespace_classes_yield(c, yielded,
                 [namespace |-> self, cd |-> system[i].class_.cd]))

Namespace_classes_after(c, self, s) ==
    IF s.err # "None"
    THEN [err |-> s.err, classes |-> Namespace_classes_system(c, self, s.classes, 1, <<>>)]
    ELSE Namespace_classes_own(c, self, Namespace_classes_references(c, self), 1,
                               Namespace_classes_system(c, self, s.classes, 1, <<>>))

\* Namespace.classes, consumed to its end or to the exception that ends it.
Namespace_classes(c, self) ==
    IF self # SYSTEM_NAMESPACE_NAME
    THEN Namespace_classes_after(c, self,
             Namespace_classes_own(c, SYSTEM_NAMESPACE_NAME,
                 Namespace_classes_references(c, SYSTEM_NAMESPACE_NAME), 1, <<>>))
    ELSE Namespace_classes_own(c, self, Namespace_classes_references(c, self), 1, <<>>)

\* Namespace.namespace: the first namespace yielded whose name equals
\* self.name\name without regard to case; the exception that ended the
\* enumeration when none did before it; IndexError at its end.
Namespace_namespace_of(e, main_name) ==
    IF \E i \in 1..Len(e.namespaces) : str_lower(e.namespaces[i]) = main_name
    THEN [err |-> "None",
          name |-> e.namespaces[CHOOSE i \in 1..Len(e.namespaces) :
                       /\ str_lower(e.namespaces[i]) = main_name
                       /\ \A j \in 1..(i - 1) : str_lower(e.namespaces[j]) # main_name]]
    ELSE IF e.err # "None" THEN [err |-> e.err, name |-> ""]
    ELSE [err |-> "IndexError", name |-> ""]

Namespace_namespace(c, self, name) ==
    Namespace_namespace_of(Namespace_namespaces(c, self), str_lower(self \o "\\" \o name))

\* ObjectPath(hostname, namespace, class_, instance)
ObjectPath(hostname, namespace, class_, instance) ==
    [err |-> "None", hostname |-> hostname, namespace |-> namespace, class_ |-> class_,
     instance |-> instance]

ObjectPathError(err) ==
    [err |-> err, hostname |-> "", namespace |-> "", class_ |-> "", instance |-> <<>>]

\* Lines 142-144: instance[k] = v.strip("\"'") for each key of keys.split(",").
RECURSIVE parse_object_path_keys(_, _, _)
parse_object_path_keys(keys, i, instance) ==
    IF i > Len(keys) THEN instance
    ELSE parse_object_path_keys(keys, i + 1,
             dict_setitem(instance, str_partition(keys[i], "=")[1],
                          str_strip_chars(str_partition(keys[i], "=")[3], {"\"", "'"})))

\* Lines 139-148 on the rest of the path p = object_path.partition(".").
parse_object_path_class(hostname, namespace, object_path, p) ==
    IF ~str_contains(".", object_path)
    THEN ObjectPath(hostname, str_replace(namespace, "/", "\\"), object_path, <<>>)
    ELSE ObjectPath(hostname, str_replace(namespace, "/", "\\"), p[1],
                    IF p[3] = "" THEN <<>>
                    ELSE parse_object_path_keys(str_split(p[3], ","), 1, <<>>))

\* Lines 121-135: a relative path without ":" and ".": a child namespace
\* of ns when ns has one of that name, else a class of ns.
parse_object_path_relative_class(hostname, ns, object_path, cls) ==
    IF cls.err = "IndexError" THEN ObjectPathError("RuntimeError")
    ELSE IF cls.err # "None" THEN ObjectPathError(cls.err)
    ELSE parse_object_path_class(hostname, ns, object_path, <<object_path, "", "">>)

parse_object_path_relative(c, hostname, ns, object_path, child) ==
    IF child.err = "None"
    THEN ObjectPath(hostname,
                    str_replace(ns, "/", "\\") \o "\\" \o str_replace(object_path, "/", "\\"),
                    "", <<>>)
    ELSE IF child.err # "IndexError" THEN ObjectPathError(child.err)
    ELSE parse_object_path_relative_class(hostname, ns, object_path,
                                          Namespace_class_(c, ns, object_path))

\* Lines 114-148 on the path after the host.
parse_object_path_rest(c, hostname, is_rooted, ns, object_path) ==
    IF str_contains(":", object_path)
    THEN parse_object_path_class(hostname, str_partition(object_path, ":")[1],
                                 str_partition(object_path, ":")[3],
                                 str_partition(str_partition(object_path, ":")[3], "."))
    ELSE IF ~str_contains(".", object_path)
    THEN (IF is_rooted
          THEN ObjectPath(hostname, str_replace(object_path, "/", "\\"), "", <<>>)
          ELSE parse_object_path_relative(c, hostname, ns, object_path,
                                          Namespace_namespace(c, ns, object_path)))
    ELSE parse_object_path_class(hostname, ns, object_path, str_partition(object_path, "."))

\* Lines 89-105: a path that starts with // names a host.
parse_object_path_host(c, ns, object_path) ==
    IF str_startswith(object_path, "//")
    THEN parse_object_path_rest(c,
             IF str_partition(SubSeq(object_path, 3, Len(object_path)), "/")[1] = "."
             THEN "localhost"
             ELSE str_partition(SubSeq(object_path, 3, Len(object_path)), "/")[1],
             TRUE, ns,
             str_partition(SubSeq(object_path, 3, Len(object_path)), "/")[3])
    ELSE parse_object_path_rest(c, "localhost", FALSE, ns, object_path)

\* parse_object_path(object_path, ns) for a namespace ns
parse_object_path(c, object_path, ns) ==
    parse_object_path_host(c, ns,
        str_removeprefix(str_replace(object_path, "\\", "/"), "winmgmts:"))

\* CIM.query, lines 116-119, in a namespace: the class, then the instance.
CIM_query_instance(c, cls, instance) ==
    IF cls.err # "None"
    THEN [err |-> cls.err, type |-> "", namespace |-> "", class_ |-> <<>>, instance |-> <<>>]
    ELSE IF instance = <<>>
    THEN [err |-> "None", type |-> "Class", namespace |-> cls.class_.namespace,
          class_ |-> cls.class_, instance |-> <<>>]
    ELSE [err |-> Class_instance(c, cls.class_, instance).err, type |-> "Instance",
          namespace |-> cls.class_.namespace, class_ |-> cls.class_,
          instance |-> Class_instance(c, cls.class_, instance).instance]

\* CIM.query, lines 103-121, on the parsed path.
CIM_query_of(c, object_path) ==
    IF object_path.err # "None"
    THEN [err |-> object_path.err, type |-> "", namespace |-> "", class_ |-> <<>>,
          instance |-> <<>>]
    ELSE IF object_path.hostname # "localhost" \/ object_path.namespace = ""
    THEN [err |-> "ValueError", type |-> "", namespace |-> "", class_ |-> <<>>,
          instance |-> <<>>]
    ELSE IF object_path.class_ = ""
    THEN [err |-> "None", type |-> "Namespace", namespace |-> object_path.namespace,
          class_ |-> <<>>, instance |-> <<>>]
    ELSE CIM_query_instance(c,
             Namespace_class_(c, object_path.namespace, object_path.class_),
             object_path.instance)

\* Namespace.query(path): cim.query(path, self)
Namespace_query(c, self, path) == CIM_query_of(c, parse_object_path(c, path, self))

(***************************************************************************)
(* SpecInst: the navigator over repositories that store instances.         *)
(* Under root the class Top declares P (index 0) and the class Low, derived *)
(* from Top, declares K (index 1); both are strings.  The namespace        *)
(* __SystemClass holds the class __namespace with the key property Name.   *)
(* A repository is described by                                            *)
(*   xp: the layout;                                                       *)
(*   topKey, lowKey: the key qualifier on Top.P and on Low.K: its value,   *)
(*     or "none" for a property without the qualifier;                     *)
(*   lowP: whether Low declares P again, key-qualified;                    *)
(*   sysTop: whether __SystemClass holds a class named Top as well;        *)
(*   insts: the stored instances of Low, in the order of the index;        *)
(*   names: the Name of the stored instances of __namespace under root.    *)
(***************************************************************************)
InstanceKinds == {"xa", "ya", "xb", "ua", "xd", "xu"}

InstanceLists ==
    {<<>>, <<"xa">>, <<"xa", "ya">>, <<"xa", "xb">>, <<"ya", "xa", "xb">>,
     <<"ua", "xa">>, <<"xa", "ua">>, <<"xd", "xa">>, <<"xu", "xb">>, <<"xa", "xa">>}

NameLists == {<<>>, <<"A">>, <<"A", "B">>, <<"A", "A">>, <<"A", "B", "A">>}

KeyRepositories ==
    [xp : BOOLEAN, topKey : {"True", "False", "none"}, lowKey : {"True", "False", "none"},
     lowP : BOOLEAN, sysTop : {FALSE}, insts : InstanceLists, names : {<<"A">>}]

NameRepositories ==
    [xp : BOOLEAN, topKey : {"True"}, lowKey : {"True"},
     lowP : {FALSE}, sysTop : BOOLEAN, insts : {<<"xa">>}, names : NameLists]

InstRepositories == KeyRepositories \cup NameRepositories

\* The qualifier references of a property: its type, and the key qualifier
\* when it has one.
PropQualifiers(key) ==
    <<[key |-> "PROP_QUALIFIER_TYPE", value |-> "string"]>>
        \o (IF key = "none" THEN <<>> ELSE <<[key |-> PROP_QUALIFIER_KEY, value |-> key]>>)

InstProp(name, index, key) ==
    [name |-> name, index |-> index, type |-> "STRING", qualifiers |-> PropQualifiers(key)]

\* The class definitions a repository stores, and the instances: each with
\* its namespace, the class it is stored under, the page and id of the
\* object and its length; an instance has the digest of its key in place
\* of a class name of its own.
InstStoredClasses(r) ==
    {[ns |-> ROOT_NAMESPACE_NAME, name |-> "Top", cd |-> <<1, 1>>, length |-> 140],
     [ns |-> ROOT_NAMESPACE_NAME, name |-> "Low", cd |-> <<1, 2>>, length |-> 120],
     [ns |-> SYSTEM_NAMESPACE_NAME, name |-> NAMESPACE_CLASS_NAME, cd |-> <<2, 1>>,
      length |-> 110]}
    \cup (IF r.sysTop
          THEN {[ns |-> SYSTEM_NAMESPACE_NAME, name |-> "Top", cd |-> <<2, 3>>, length |-> 141]}
          ELSE {})

InstDigest(i) == Char("ABCDEF", i) \o str(i)

InstStoredInstances(r) ==
    {[ns |-> ROOT_NAMESPACE_NAME, name |-> "Low", digest |-> InstDigest(i),
      cd |-> <<3, i>>, length |-> 60] : i \in 1..Len(r.insts)}
    \cup {[ns |-> ROOT_NAMESPACE_NAME, name |-> NAMESPACE_CLASS_NAME, digest |-> InstDigest(i),
           cd |-> <<4, i>>, length |-> 50] : i \in 1..Len(r.names)}

InstStoredKey(xp, e) ==
    "NS_" \o Key__hash(xp, str_upper(e.ns)) \o "/CI_" \o Key__hash(xp, str_upper(e.name))
        \o "/IL_" \o e.digest
        \o "." \o str(e.cd[1]) \o "." \o str(e.cd[2]) \o "." \o str(e.length)

\* The class definition parsed from a stored object.  On Low the state of P
\* is inherited with a default value, the state of K has a default value.
InstStoredDefinition(r, e) ==
    [class_name |-> e.name,
     super_class_name |-> IF e.name = "Low" THEN "Top" ELSE "",
     property_references |->
         IF e.name = "Top" THEN <<InstProp("P", 0, r.topKey)>>
         ELSE IF e.name = "Low"
         THEN (IF r.lowP THEN <<InstProp("P", 0, "True")>> ELSE <<>>)
                  \o <<InstProp("K", 1, r.lowKey)>>
         ELSE <<InstProp("Name", 0, "True")>>,
     default_values_data |-> [state |-> <<IF e.name = "Low" THEN 2 ELSE 0>>,
                              values |-> <<8, 16>>],
     property_data |-> (0 :> e.name) @@ (8 :> "p0") @@ (16 :> "k0")]

\* The instance of Low parsed from a stored object: the first letter of its
\* kind is the value of P, the second the value of K;  u is a property that
\* is not initialized, d one that uses the default value.
InstStateFlags(ch) == IF ch = "u" THEN 1 ELSE IF ch = "d" THEN 2 ELSE 0

InstStoredInstance(kind) ==
    [state |-> <<InstStateFlags(Char(kind, 1)) + 4 * InstStateFlags(Char(kind, 2))>>,
     toc |-> <<4, 8>>,
     data |-> (0 :> "Low") @@ (4 :> Char(kind, 1)) @@ (8 :> Char(kind, 2))]

\* The instance of __namespace parsed from a stored object.
InstStoredNamespace(name) ==
    [state |-> <<0>>, toc |-> <<12>>, data |-> (0 :> NAMESPACE_CLASS_NAME) @@ (12 :> name)]

InstStoredObjects(r) ==
    [cd \in {e.cd : e \in InstStoredClasses(r) \cup InstStoredInstances(r)} |->
        IF cd[1] = 3 THEN InstStoredInstance(r.insts[cd[2]])
        ELSE IF cd[1] = 4 THEN InstStoredNamespace(r.names[cd[2]])
        ELSE InstStoredDefinition(r, CHOOSE e \in InstStoredClasses(r) : e.cd = cd)]

\* The session CIM.__init__ leaves.
InstRepository(r) ==
    [type_xp |-> r.xp,
     index |-> LeafIndex(SortedKeys({StoredKey(r.xp, e) : e \in InstStoredClasses(r)}
                                    \cup {InstStoredKey(r.xp, e) : e \in InstStoredInstances(r)})),
     objects |-> InstStoredObjects(r)]

InstIdle ==
    [pc |-> "idle", hostname |-> "", ns |-> "", name |-> "", ref |-> "", path |-> "",
     err |-> "None", key |-> <<>>, ikey |-> "", out |-> <<>>]

InitInst ==
    /\ \E r \in InstRepositories : cim = InstRepository(r)
    /\ calc = InstIdle
    /\ nav = <<>>
    /\ mappings = <<>> /\ fcm = FcmIdle
    /\ omap = <<>> /\ ofile = <<>> /\ okey = <<>> /\ og = <<>>

\* The classes of root that instances are asked of.
InstClassNames == {"Low", "Top"}

\* The references of the instances of a class: the references line 288
\* iterates.
InstanceReferences(c, self) ==
    Key_references(c.index,
        Key_IL_none(Key_CI(c.type_xp, Key_NS(c.type_xp, Key(<<>>), self.namespace),
                           ClassDef(c, self).class_name)))

\* str(instance.key) of the instance of one reference of a class
CallInstanceKey ==
    /\ calc.pc = "idle"
    /\ \E name \in InstClassNames :
       \E cls \in {Namespace_class_(cim, ROOT_NAMESPACE_NAME, name)} :
         /\ cls.err = "None"
         /\ \E refs \in {InstanceReferences(cim, cls.class_)} :
            \E i \in 1..Len(refs) :
            \E k \in {Class_instances_key(cim, cls.class_, Key_object(cim, refs[i]))} :
               calc' = [calc EXCEPT !.pc = "key", !.ns = ROOT_NAMESPACE_NAME, !.name = name,
                                    !.ref = refs[i], !.err = k.err, !.key = k.key,
                                    !.ikey = k.ikey]
    /\ UNCHANGED <<cim, nav, mapVars, objVars>>

\* list(class.instances)
CallInstances ==
    /\ calc.pc = "idle"
    /\ \E name \in InstClassNames :
       \E cls \in {Namespace_class_(cim, ROOT_NAMESPACE_NAME, name)} :
         /\ cls.err = "None"
         /\ \E e \in {Class_instances(cim, cls.class_)} :
               calc' = [calc EXCEPT !.pc = "instances", !.ns = ROOT_NAMESPACE_NAME,
                                    !.name = name, !.err = e.err, !.out = e.instances]
    /\ UNCHANGED <<cim, nav, mapVars, objVars>>

\* list(namespace.namespaces)
CallNamespaces ==
    /\ calc.pc = "idle"
    /\ \E ns \in Namespaces :
       \E e \in {Namespace_namespaces(cim, ns)} :
          calc' = [calc EXCEPT !.pc = "namespaces", !.ns = ns, !.err = e.err,
                               !.out = e.namespaces]
    /\ UNCHANGED <<cim, nav, mapVars, objVars>>

\* list(namespace.classes)
CallClasses ==
    /\ calc.pc = "idle"
    /\ \E ns \in Namespaces :
       \E e \in {Namespace_classes(cim, ns)} :
          calc' = [calc EXCEPT !.pc = "classes", !.ns = ns, !.err = e.err,
                               !.out = e.classes]
    /\ UNCHANGED <<cim, nav, mapVars, objVars>>

\* The paths asked of the namespace root: a class with keys, relative and
\* rooted, in both spellings of the separators and with both quotes; a
\* class; a child namespace; a rooted namespace; another host.
QueryPaths ==
    {"Low.K='a'", "Low.K=\"b\"", "Low.P='x',K='a'", "Low.P='x'", "Low.K='c'",
     "//./root:Low.K='a'", "\\\\.\\root:Low.K='a'", "winmgmts://./root:Low.K='b'",
     "//HOST/root:Low.K='a'", "Gone.K='a'", "Low", "A", "//./root"}

\* namespace.query(path) on the namespace root
CallQuery ==
    /\ calc.pc = "idle"
    /\ \E path \in QueryPaths :
       \E p \in {parse_object_path(cim, path, ROOT_NAMESPACE_NAME)} :
       \E r \in {CIM_query_of(cim, p)} :
          calc' = [calc EXCEPT !.pc = "query", !.hostname = p.hostname,
                               !.ns = p.namespace, !.name = p.class_,
                               !.path = path, !.key = p.instance, !.err = r.err,
                               !.out = r]
    /\ UNCHANGED <<cim, nav, mapVars, objVars>>

NextInst ==
    \/ CallInstanceKey
    \/ CallInstances
    \/ CallNamespaces
    \/ CallClasses
    \/ CallQuery

SpecInst == InitInst /\ [][NextInst]_vars

(***************************************************************************)
(* SpecKey: keys built segment by segment with NS, CD, CI and IL, stored   *)
(* with a data reference, and read back (index.py, class Key).             *)
(* A stored key is the key followed by .page.id.length, the numbers in     *)
(* decimal.                                                                *)
(***************************************************************************)
MaxSegments == 3

\* The segments the navigator builds: a namespace, then a class definition
\* or the instances of a class, then an instance.
KeyPrefixes(segments) ==
    IF segments = 0 THEN {"NS"} ELSE IF segments = 1 THEN {"CD", "CI"} ELSE {"IL"}

\* Names that are hashed, names of upper-case hexadecimal characters with a
\* letter, names of digits only, a name of lower-case hexadecimal letters.
KeyNames == {"root", "Low", "abc", "ABC", "A1", "12", "50834915"}

DataPages == {0, 12}
DataIds == {0, 7}
ObjectLengths == {12, 140}

KeyIdle ==
    [pc |-> "key", xp |-> FALSE, key |-> "", segments |-> 0, prefix |-> "", name |-> "",
     page |-> 0, id |-> 0, length |-> 0,
     is_data_reference |-> FALSE, data_page |-> 0, data_id |-> 0, data_length |-> 0]

InitKey ==
    /\ \E xp \in BOOLEAN : calc = [KeyIdle EXCEPT !.xp = xp]
    /\ mappings = <<>> /\ fcm = FcmIdle
    /\ omap = <<>> /\ ofile = <<>> /\ okey = <<>> /\ og = <<>>
    /\ cim = <<>> /\ nav = <<>>

\* key.NS(name), key.CD(name), key.CI(name), key.IL(name)
KeyBuild ==
    /\ calc.pc = "key"
    /\ calc.segments < MaxSegments
    /\ \E prefix \in KeyPrefixes(calc.segments), name \in KeyNames :
          calc' = [calc EXCEPT !.key = Key__path(calc.xp, calc.key, prefix, name),
                               !.segments = calc.segments + 1,
                               !.prefix = prefix, !.name = name]
    /\ UNCHANGED <<mapVars, objVars, navVars>>

\* IndexPage.key: the Key of a string of an index page, here the key built
\* so far with the data reference of an object.
KeyStored ==
    /\ calc.pc = "key"
    /\ calc.segments > 0
    /\ \E page \in DataPages, id \in DataIds, length \in ObjectLengths :
          calc' = [calc EXCEPT !.pc = "stored",
                               !.key = Key(<<calc.key \o "." \o str(page) \o "." \o str(id)
                                                \o "." \o str(length)>>),
                               !.page = page, !.id = id, !.length = length]
    /\ UNCHANGED <<mapVars, objVars, navVars>>

\* key.is_data_reference, key.data_page, key.data_id, key.data_length
KeyDataParts ==
    /\ calc.pc \in {"key", "stored"}
    /\ calc.segments > 0
    /\ calc' = [calc EXCEPT !.pc = IF calc.pc = "key" THEN "key_read" ELSE "stored_read",
                            !.is_data_reference = Key_is_data_reference(calc.key),
                            !.data_page = Key_data_page(calc.key),
                            !.data_id = Key_data_id(calc.key),
                            !.data_length = Key_data_length(calc.key)]
    /\ UNCHANGED <<mapVars, objVars, navVars>>

NextKey ==
    \/ KeyBuild
    \/ KeyStored
    \/ KeyDataParts

SpecKey == InitKey /\ [][NextKey]_vars

(***************************************************************************)
(* SpecCtor: CIM.__init__ on one mapping stream (cim.py, mappings.py).     *)
(* The stream is the sequence of its dwords and is read at a position that *)
(* every read advances.  A mapping record is a header, the entries (six    *)
(* dwords each in the modern layout, one in the XP layout), the count of   *)
(* free dwords and the free dwords.  The streams of the model are laid out *)
(* as objects-mapping record, footer, index-mapping record, with or        *)
(* without a dword after it.                                               *)
(***************************************************************************)
MaxEntries == 2
MaxFree == 1

\* c_cim.uint32(fh)
uint32(fh, pos) ==
    IF pos > Len(fh) THEN [err |-> "EOFError", value |-> 0, pos |-> pos]
    ELSE [err |-> "None", value |-> fh[pos], pos |-> pos + 1]

\* c_cim.mapping(fh): the struct of lines 34-44 read at pos.
mapping(fh, pos) ==
    IF pos + 5 > Len(fh)
    THEN [err |-> "EOFError", signature |-> 0, mapping_entry_count |-> 0, pos |-> pos]
    ELSE IF pos + 6 + 6 * fh[pos + 5] > Len(fh)
    THEN [err |-> "EOFError", signature |-> 0, mapping_entry_count |-> 0, pos |-> pos]
    ELSE IF pos + 6 + 6 * fh[pos + 5] + fh[pos + 6 + 6 * fh[pos + 5]] > Len(fh)
    THEN [err |-> "EOFError", signature |-> 0, mapping_entry_count |-> 0, pos |-> pos]
    ELSE [err |-> "None", signature |-> fh[pos], mapping_entry_count |-> fh[pos + 5],
          pos |-> pos + 6 + 6 * fh[pos + 5] + 1 + fh[pos + 6 + 6 * fh[pos + 5]]]

\* c_cim.mapping_xp(fh): the struct of lines 46-55 read at pos; its last
\* field is footer_signature.
mapping_xp(fh, pos) ==
    IF pos + 3 > Len(fh)
    THEN [err |-> "EOFError", signature |-> 0, mapping_entry_count |-> 0, pos |-> pos]
    ELSE IF pos + 4 + fh[pos + 3] > Len(fh)
    THEN [err |-> "EOFError", signature |-> 0, mapping_entry_count |-> 0, pos |-> pos]
    ELSE IF pos + 4 + fh[pos + 3] + fh[pos + 4 + fh[pos + 3]] + 1 > Len(fh)
    THEN [err |-> "EOFError", signature |-> 0, mapping_entry_count |-> 0, pos |-> pos]
    ELSE [err |-> "None", signature |-> fh[pos], mapping_entry_count |-> fh[pos + 3],
          pos |-> pos + 4 + fh[pos + 3] + 1 + fh[pos + 4 + fh[pos + 3]] + 1]

\* Mapping.__init__ on the struct read.
Mapping_of(m) ==
    IF m.err # "None" THEN [err |-> m.err, pos |-> m.pos]
    ELSE IF m.signature # MAPPING_SIGNATURE THEN [err |-> "Error", pos |-> m.pos]
    ELSE [err |-> "None", pos |-> m.pos]

\* Mapping.__init__: cim.map_type is mapping_xp under XP, mapping otherwise.
Mapping(type_xp, fh, pos) ==
    Mapping_of(IF type_xp THEN mapping_xp(fh, pos) ELSE mapping(fh, pos))

\* The dwords of a mapping record of a layout.
RECURSIVE MappingEntries(_, _)
MappingEntries(xp, n) ==
    IF n = 0 THEN <<>>
    ELSE MappingEntries(xp, n - 1) \o (IF xp THEN <<n>> ELSE <<n, 0, 0, 0, 0, 0>>)

MappingRecord(xp, version, entries, free) ==
    (IF xp THEN <<MAPPING_SIGNATURE, version, entries, entries>>
     ELSE <<MAPPING_SIGNATURE, version, 2, 1, entries, entries>>)
        \o MappingEntries(xp, entries) \o <<free>> \o [i \in 1..free |-> 0]

\* A stream: the layout, the counts of the two records, the dwords between
\* the two records and the dwords after the index-mapping record.
CtorStreams ==
    [xp : BOOLEAN, version : 1..MaxVersion,
     objects_entries : 0..MaxEntries, objects_free : 0..MaxFree,
     footer : {<<FOOTER_SIGNATURE>>, <<MAPPING_SIGNATURE>>,
               <<FOOTER_SIGNATURE, FOOTER_SIGNATURE>>},
     index_entries : 0..MaxEntries, index_free : 0..MaxFree,
     tail : {<<>>, <<FOOTER_SIGNATURE>>}]

CtorStream(s) ==
    MappingRecord(s.xp, s.version, s.objects_entries, s.objects_free)
        \o s.footer
        \o MappingRecord(s.xp, s.version, s.index_entries, s.index_free)
        \o s.tail

InitCtor ==
    /\ \E s \in CtorStreams :
          calc = [pc |-> "init", layout |-> s, fh |-> CtorStream(s), pos |-> 1,
                  type_xp |-> "None", err |-> "None",
                  objects_at |-> 0, footer_at |-> <<>>, index_at |-> 0]
    /\ mappings = <<>> /\ fcm = FcmIdle
    /\ omap = <<>> /\ ofile = <<>> /\ okey = <<>> /\ og = <<>>
    /\ cim = <<>> /\ nav = <<>>

\* Lines 50-56 for one mapping stream: find_current_mapping decides the
\* layout on the header, takes the stream as current when its version is
\* greater than 0 and leaves it at its start.
CtorFindCurrent ==
    /\ calc.pc = "init"
    /\ \E verdict \in {is_xp_mapping(mapping_header(calc.fh))} :
       \E mh \in {IF verdict = "True" THEN mapping_header_xp(calc.fh)
                  ELSE mapping_header(calc.fh)} :
          calc' = IF verdict = "Error" \/ mh.version <= 0
                  THEN [calc EXCEPT !.pc = "raised", !.err = "Error"]
                  ELSE [calc EXCEPT !.pc = "current", !.type_xp = verdict, !.pos = 1]
    /\ UNCHANGED <<mapVars, objVars, navVars>>

\* Line 66: Objects(self, objects, Mapping(self, self._current_map))
CtorObjectsMapping ==
    /\ calc.pc = "current"
    /\ \E m \in {Mapping(calc.type_xp = "True", calc.fh, calc.pos)} :
          calc' = IF m.err # "None"
                  THEN [calc EXCEPT !.pc = "raised", !.err = m.err]
                  ELSE [calc EXCEPT !.pc = "objects", !.objects_at = calc.pos,
                                    !.pos = m.pos]
    /\ UNCHANGED <<mapVars, objVars, navVars>>

\* Lines 70-72: the footer signature is read and checked.
CtorFooter ==
    /\ calc.pc = "objects"
    /\ \E footer_signature \in {uint32(calc.fh, calc.pos)} :
          calc' = IF footer_signature.err # "None"
                  THEN [calc EXCEPT !.pc = "raised", !.err = footer_signature.err]
                  ELSE IF footer_signature.value # FOOTER_SIGNATURE
                  THEN [calc EXCEPT !.pc = "raised", !.err = "Error",
                                    !.footer_at = Append(calc.footer_at, calc.pos),
                                    !.pos = footer_signature.pos]
                  ELSE [calc EXCEPT !.pc = "footer",
                                    !.footer_at = Append(calc.footer_at, calc.pos),
                                    !.pos = footer_signature.pos]
    /\ UNCHANGED <<mapVars, objVars, navVars>>

\* Lines 74-77: Index(self, index, Mapping(self, self._current_map)), an
\* EOFError turned into InvalidDatabaseError.
CtorIndexMapping ==
    /\ calc.pc = "footer"
    /\ \E m \in {Mapping(calc.type_xp = "True", calc.fh, calc.pos)} :
          calc' = IF m.err = "EOFError"
                  THEN [calc EXCEPT !.pc = "raised", !.err = "InvalidDatabaseError"]
                  ELSE IF m.err # "None"
                  THEN [calc EXCEPT !.pc = "raised", !.err = m.err]
                  ELSE [calc EXCEPT !.pc = "constructed", !.index_at = calc.pos,
                                    !.pos = m.pos]
    /\ UNCHANGED <<mapVars, objVars, navVars>>

NextCtor ==
    \/ CtorFindCurrent
    \/ CtorObjectsMapping
    \/ CtorFooter
    \/ CtorIndexMapping

SpecCtor == InitCtor /\ [][NextCtor]_vars

(***************************************************************************)
(* SpecIdx: Index.lookup on an index of several pages (index.py).  An      *)
(* index is [root, pages]; a page is [keys, children] as IndexPage reads   *)
(* them: count keys and count + 1 child pointers, the pointer of an absent *)
(* child being one of the two sentinels.  The states start from every      *)
(* ordered tree of at most MaxDepth levels over at most MaxKeys keys: the  *)
(* keys of a page ascend and the subtree between two keys holds the keys   *)
(* that lie between them.  A tree is drawn as the ascending sequence of    *)
(* its keys with a level for each: the keys of one page are the keys of    *)
(* one level that no key of a lower level separates, and the page is       *)
(* numbered by the position of its first key.  Logical page 0 is the page  *)
(* the store may read for the number of the root page (line 81); it is an  *)
(* index page with a key of its own and belongs to no subtree.             *)
(***************************************************************************)
MaxKeys == 4
MaxDepth == 3

\* The keys an index may hold: class definitions, an instance and instance
\* locations of two namespaces, with their data references.
IdxKeyUniverse ==
    { "NS_0/CD_2.1.2.3", "NS_1/CD_2.1.2.3", "NS_1/CD_20.1.2.3",
      "NS_1/CI_2/IL_3.1.2.3", "NS_1/CI_2/IL_4.1.2.3", "NS_2/CD_2.1.2.3" }

\* The targets looked up: the prefixes the navigator asks for, a target no
\* key holds, and a target that the keys hold but do not begin with.
IdxTargets == { "NS_1", "NS_1/CD_2", "NS_1/CI_2/IL", "NS_3", "CD_2" }

IdxSetMin(S) == CHOOSE x \in S : \A y \in S : x <= y
IdxSetMax(S) == CHOOSE x \in S : \A y \in S : x >= y

\* The positions of lo..hi that make the page at the top of that range.
IdxTop(lv, lo, hi) == { q \in lo..hi : \A r \in lo..hi : lv[q] <= lv[r] }

\* IndexPage.child of an absent child: 0xFFFFFFFF or 0x00000000.
IdxSentinel(base, pno, j) ==
    IF (base + pno + j) % 2 = 0 THEN INDEX_PAGE_INVALID ELSE INDEX_PAGE_INVALID2

\* The pointer to the child that holds the positions lo..hi.
IdxChild(lv, base, pno, j, lo, hi) ==
    IF lo > hi THEN IdxSentinel(base, pno, j) ELSE IdxSetMin(IdxTop(lv, lo, hi))

\* The positions of the page that holds position p.
IdxPagePositions(lv, p) ==
    { q \in DOMAIN lv :
        /\ lv[q] = lv[p]
        /\ \A r \in Min(p, q)..Max(p, q) : lv[r] >= lv[p] }

\* The page (index_page: keys and children) that holds position p.
IdxPage(ks, lv, base, p) ==
    LET n == Len(ks)
        Q == IdxPagePositions(lv, p)
        count == Cardinality(Q)
        lo == IdxSetMax({0} \cup { r \in 1..p : lv[r] < lv[p] }) + 1
        hi == IdxSetMin({n + 1} \cup { r \in p..n : lv[r] < lv[p] }) - 1
        qs == [j \in 1..count |-> CHOOSE q \in Q : Cardinality({ r \in Q : r < q }) = j - 1]
        pno == qs[1]
    IN  [keys |-> [j \in 1..count |-> ks[qs[j]]],
         children |->
            [j \in 1..(count + 1) |->
                IdxChild(lv, base, pno, j - 1,
                         IF j = 1 THEN lo ELSE qs[j - 1] + 1,
                         IF j = count + 1 THEN hi ELSE qs[j] - 1)]]

\* Logical page 0.
IdxPageZero ==
    [keys |-> << "NS_1/CD_2.9.9.9" >>,
     children |-> << INDEX_PAGE_INVALID, INDEX_PAGE_INVALID >>]

\* The index of the keys ks with the levels lv.
IdxIndex(ks, lv, base) ==
    LET n == Len(ks)
        pnos == { p \in 1..n : p = IdxSetMin(IdxPagePositions(lv, p)) }
    IN  IF n = 0
        THEN [root |-> 1,
              pages |-> (0 :> IdxPageZero)
                        @@ (1 :> [keys |-> <<>>, children |-> << IdxSentinel(base, 1, 0) >>])]
        ELSE [root |-> IdxSetMin(IdxTop(lv, 1, n)),
              pages |-> (0 :> IdxPageZero) @@ [p \in pnos |-> IdxPage(ks, lv, base, p)]]

IdxIndexesOf(S) ==
    { IdxIndex(SortedKeys(S), lv, base) :
        lv \in [1..Cardinality(S) -> 1..MaxDepth], base \in 0..1 }

IdxIndexes ==
    UNION { IdxIndexesOf(S) : S \in { T \in SUBSET IdxKeyUniverse : Cardinality(T) <= MaxKeys } }

IdxIdle == [pc |-> "index", index |-> LeafIndex(<<>>), key |-> "", out |-> <<>>]

InitIdx ==
    /\ \E index \in IdxIndexes : calc = [IdxIdle EXCEPT !.index = index]
    /\ mappings = <<>> /\ fcm = FcmIdle
    /\ omap = <<>> /\ ofile = <<>> /\ okey = <<>> /\ og = <<>>
    /\ cim = <<>> /\ nav = <<>>

\* Index.lookup(key)
IndexLookup ==
    /\ \E key \in IdxTargets :
          calc' = [calc EXCEPT !.pc = "lookup", !.key = key,
                               !.out = Index_lookup(calc.index, key)]
    /\ UNCHANGED <<mapVars, objVars, navVars>>

NextIdx == IndexLookup

SpecIdx == InitIdx /\ [][NextIdx]_vars

(***************************************************************************)
(* SpecMemo: one session of an index with its caches (index.py 25-31 and   *)
(* 77-92, mappings.py 16-23).  Index.__init__ wraps _lookup in an          *)
(* lru_cache keyed by (key, page), Mapping.__init__ wraps get_entry in one *)
(* keyed by the logical number.  A cache is the sequence of its entries    *)
(* [args, value] from the least to the most recently used.  The session is *)
(* [map, file, root_page]: the entries of the index mapping, the pages of  *)
(* the index file by physical number, and the IndexPage object             *)
(* Store.__init__ made for the root.  An IndexPage defines neither __eq__  *)
(* nor __hash__: as a cache key it is its identity, "root" for the root    *)
(* page of the store and "new" for a page Store.page makes during a        *)
(* lookup, which no later argument can be.  The sizes of the caches (1024  *)
(* and 256 in the source) are scaled down so that evictions happen.        *)
(***************************************************************************)
LookupCacheSize == 2
EntryCacheSize == 2

\* An lru_cache that answers from its most recently used entry whatever the
\* arguments of the call.
lru_find_any(cache, args) == Len(cache)

\* functools.lru_cache: the place of the entry of args, 0 for a miss.
lru_find(cache, args) ==
    IF \E i \in DOMAIN cache : cache[i].args = args
    THEN CHOOSE i \in DOMAIN cache : cache[i].args = args
    ELSE 0

\* functools.lru_cache, a hit: the entry becomes the most recently used.
lru_hit(cache, i) ==
    SubSeq(cache, 1, i - 1) \o SubSeq(cache, i + 1, Len(cache)) \o << cache[i] >>

\* functools.lru_cache, a miss whose call returned: the result is stored, in
\* the place of the least recently used entry when the cache is full.
lru_store(cache, maxsize, args, value) ==
    IF maxsize = 0 THEN cache
    ELSE Append(IF Len(cache) >= maxsize THEN Tail(cache) ELSE cache,
                [args |-> args, value |-> value])

\* self.get_entry(logical_num) through the cache of size maxsize: [e, ec],
\* the result and the cache after the call.  A call that raises stores
\* nothing.
Cached_get_entry_of(ec, maxsize, m, logical_num, i) ==
    IF i # 0 THEN [e |-> ec[i].value, ec |-> lru_hit(ec, i)]
    ELSE LET e == get_entry(m, logical_num)
         IN  [e |-> e,
              ec |-> IF e.err = "None" THEN lru_store(ec, maxsize, logical_num, e) ELSE ec]

Cached_get_entry(ec, maxsize, m, logical_num) ==
    Cached_get_entry_of(ec, maxsize, m, logical_num, lru_find(ec, logical_num))

\* index.Store.page: the entry of the logical page, then the page read at
\* its physical number; the struct reader raises EOFError past the file.
Store_page_of(file, r, obj) ==
    IF r.e.err # "None" THEN [err |-> r.e.err, ec |-> r.ec]
    ELSE IF r.e.page_number \notin DOMAIN file THEN [err |-> "EOFError", ec |-> r.ec]
    ELSE [err |-> "None", ec |-> r.ec,
          page |-> [keys |-> file[r.e.page_number].keys,
                    children |-> file[r.e.page_number].children,
                    obj |-> obj]]

Store_page(sess, ec, sizes, logical_num, obj) ==
    Store_page_of(sess.file, Cached_get_entry(ec, sizes.entry, sess.map, logical_num), obj)

RECURSIVE Cached__lookup(_, _, _, _, _)
RECURSIVE Cached__lookup_loop(_, _, _, _, _, _, _)

\* Index._lookup_child with the caches c = [lc, ec]: [err, out, lc, ec].
Cached__lookup_child_of(sess, sizes, lc, key, p) ==
    IF p.err # "None" THEN [err |-> p.err, out |-> <<>>, lc |-> lc, ec |-> p.ec]
    ELSE Cached__lookup(sess, sizes, [lc |-> lc, ec |-> p.ec], key, p.page)

Cached__lookup_child(sess, sizes, c, key, page, i, direction) ==
    IF page.children[i + direction + 1] \in { INDEX_PAGE_INVALID, INDEX_PAGE_INVALID2 }
    THEN [err |-> "None", out |-> <<>>, lc |-> c.lc, ec |-> c.ec]
    ELSE Cached__lookup_child_of(sess, sizes, c.lc, key,
             Store_page(sess, c.ec, sizes, page.children[i + direction + 1], "new"))

\* What follows the search of the right child of a matching key.
Cached__lookup_after_right(sess, sizes, key, page, i, matches, r) ==
    IF r.err # "None" THEN r
    ELSE IF i = Len(page.keys) - 1 THEN [r EXCEPT !.out = matches \o r.out]
    ELSE Cached__lookup_loop(sess, sizes, [lc |-> r.lc, ec |-> r.ec], key, page, i + 1,
                             matches \o r.out)

\* What follows the search of the left child of a matching key.
Cached__lookup_after_left(sess, sizes, key, page, i, matches, l) ==
    IF l.err # "None" THEN l
    ELSE Cached__lookup_after_right(sess, sizes, key, page, i,
             matches \o l.out \o << page.keys[i + 1] >>,
             Cached__lookup_child(sess, sizes, [lc |-> l.lc, ec |-> l.ec], key, page, i, 1))

\* A search of a child that ends the scan of the page.
Cached__lookup_last(matches, r) ==
    IF r.err # "None" THEN r ELSE [r EXCEPT !.out = matches \o r.out]

\* The body of Index._lookup from key position i, with the matches so far.
Cached__lookup_loop(sess, sizes, c, key, page, i, matches) ==
    IF i >= Len(page.keys) THEN [err |-> "None", out |-> matches, lc |-> c.lc, ec |-> c.ec]
    ELSE IF str_contains(key, page.keys[i + 1])
    THEN Cached__lookup_after_left(sess, sizes, key, page, i, matches,
             Cached__lookup_child(sess, sizes, c, key, page, i, 0))
    ELSE IF str_less(key, page.keys[i + 1])
    THEN Cached__lookup_last(matches, Cached__lookup_child(sess, sizes, c, key, page, i, 0))
    ELSE IF str_less(page.keys[i + 1], key) /\ i = Len(page.keys) - 1
    THEN Cached__lookup_last(matches, Cached__lookup_child(sess, sizes, c, key, page, i, 1))
    ELSE Cached__lookup_loop(sess, sizes, c, key, page, i + 1, matches)

\* The result of a call that missed the cache: stored unless it raised.
Cached__lookup_miss(sizes, key, page, r) ==
    IF r.err # "None" THEN r
    ELSE [r EXCEPT !.lc = lru_store(r.lc, sizes.lookup, [key |-> key, page |-> page.obj], r.out)]

\* self._lookup(key, page) through the cache.
Cached__lookup_at(sess, sizes, c, key, page, i) ==
    IF i # 0
    THEN [err |-> "None", out |-> c.lc[i].value, lc |-> lru_hit(c.lc, i), ec |-> c.ec]
    ELSE Cached__lookup_miss(sizes, key, page,
             Cached__lookup_loop(sess, sizes, c, key, page, 0, <<>>))

Cached__lookup(sess, sizes, c, key, page) ==
    Cached__lookup_at(sess, sizes, c, key, page,
        IF page.obj = "new" THEN 0 ELSE lru_find(c.lc, [key |-> key, page |-> page.obj]))

\* Index.lookup of the session.
Cached_lookup(sess, sizes, c, key) == Cached__lookup(sess, sizes, c, key, sess.root_page)

\* The sizes of the session, and no cache at all (lru_cache(0)).
MemoSizes == [lookup |-> LookupCacheSize, entry |-> EntryCacheSize]
NoCache == [lookup |-> 0, entry |-> 0]

\* index.Store.__init__ (lines 77-83) on 32-bit mapping entries, whose
\* used_space is None: the root page number is read from logical page 0,
\* then the root page is made.  [err, sess, ec].
Store_init_root(map, file, p0) ==
    IF p0.err # "None" THEN [err |-> p0.err]
    ELSE LET pr == Store_page([map |-> map, file |-> file], p0.ec, MemoSizes,
                              file[get_entry(map, 0).page_number].root_page, "root")
         IN  IF pr.err # "None" THEN [err |-> pr.err]
             ELSE [err |-> "None", ec |-> pr.ec,
                   sess |-> [map |-> map, file |-> file, root_page |-> pr.page]]

Store_init_of(map, file, r0) ==
    IF r0.e.err # "None" THEN [err |-> r0.e.err]
    ELSE Store_init_root(map, file,
             Store_page([map |-> map, file |-> file], r0.ec, MemoSizes, 0, "new"))

Store_init(map, file) ==
    Store_init_of(map, file, Cached_get_entry(<<>>, EntryCacheSize, map, 0))

\* The streams of a session: the index file holds the pages of the index at
\* the physical numbers the mapping gives their logical numbers, in the
\* order of the logical numbers or in the reverse order; the mapping has
\* an entry for every logical page, or lacks the last one or two.
MemoKeySets ==
    { { "NS_1/CD_2.1.2.3", "NS_1/CD_20.1.2.3", "NS_1/CI_2/IL_3.1.2.3" },
      { "NS_0/CD_2.1.2.3", "NS_1/CD_2.1.2.3" } }

MemoTargets == { "NS_1", "NS_1/CD_2", "NS_3" }

MemoLast(index) == IdxSetMax(DOMAIN index.pages)

MemoPhysical(index, reversed, l) == IF reversed THEN MemoLast(index) - l ELSE l

MemoMap(index, reversed, missing) ==
    [j \in 1..(MemoLast(index) + 1 - missing) |->
        IF (j - 1) \in DOMAIN index.pages
        THEN MemoPhysical(index, reversed, j - 1) ELSE UNMAPPED_PAGE_VALUE]

MemoFile(index, reversed) ==
    [ph \in { MemoPhysical(index, reversed, l) : l \in DOMAIN index.pages } |->
        LET l == MemoPhysical(index, reversed, ph)
        IN  [keys |-> index.pages[l].keys, children |-> index.pages[l].children,
             root_page |-> IF l = 0 THEN index.root ELSE 0]]

MemoStreams ==
    { [index |-> index, map |-> MemoMap(index, reversed, missing),
       file |-> MemoFile(index, reversed)] :
        index \in UNION { IdxIndexesOf(S) : S \in MemoKeySets },
        reversed \in BOOLEAN, missing \in 0..2 }

\* The sessions: the streams Index.__init__ accepts, with the store it makes.
MemoSessions ==
    { [index |-> s.index, store |-> Store_init(s.map, s.file)] :
        s \in { t \in MemoStreams : Store_init(t.map, t.file).err = "None" } }

MemoIdle ==
    [pc |-> "session", index |-> LeafIndex(<<>>), sess |-> <<>>, lc |-> <<>>, ec |-> <<>>,
     key |-> "", n |-> 0, hit |-> FALSE, evicted |-> FALSE, err |-> "None",
     out |-> <<>>, entry |-> <<>>]

InitMemo ==
    /\ \E s \in MemoSessions :
          calc = [MemoIdle EXCEPT !.index = s.index, !.sess = s.store.sess,
                                  !.ec = s.store.ec]
    /\ mappings = <<>> /\ fcm = FcmIdle
    /\ omap = <<>> /\ ofile = <<>> /\ okey = <<>> /\ og = <<>>
    /\ cim = <<>> /\ nav = <<>>

\* Index.lookup(key) on the session.
MemoLookup ==
    /\ \E key \in MemoTargets :
         \E r \in { Cached_lookup(calc.sess, MemoSizes, [lc |-> calc.lc, ec |-> calc.ec], key) } :
            calc' = [calc EXCEPT
                        !.pc = "lookup", !.key = key, !.err = r.err, !.out = r.out,
                        !.lc = r.lc, !.ec = r.ec,
                        !.hit = lru_find(calc.lc, [key |-> key, page |-> "root"]) # 0,
                        !.evicted = calc.evicted
                                    \/ \E i \in DOMAIN calc.lc :
                                          calc.lc[i].args.page = "root"
                                          /\ lru_find(r.lc, calc.lc[i].args) = 0]
    /\ UNCHANGED <<mapVars, objVars, navVars>>

\* Mapping.get_entry(n) on the mapping of the session.
MemoGetEntry ==
    /\ \E n \in 0..(MemoLast(calc.index) + 1) :
         \E r \in { Cached_get_entry(calc.ec, EntryCacheSize, calc.sess.map, n) } :
            calc' = [calc EXCEPT
                        !.pc = "get_entry", !.n = n, !.err = r.e.err, !.entry = r.e,
                        !.ec = r.ec,
                        !.hit = lru_find(calc.ec, n) # 0]
    /\ UNCHANGED <<mapVars, objVars, navVars>>

NextMemo == MemoLookup \/ MemoGetEntry

SpecMemo == InitMemo /\ [][NextMemo]_vars

(***************************************************************************)
(* SpecProp: the value of a property of a stored instance (classes.py,     *)
(* ClassInstance.properties and ClassInstanceProperty.value).  The         *)
(* repositories are those of SpecInst with one instance of Low, and with   *)
(* the state bits of P on Top and of P and K on Low varied: a class may    *)
(* hold a default of its own, inherit it, or have none.  The instance is   *)
(* of every kind: each of P and K with a value of its own (x), not         *)
(* initialized (u) or using the default of the class (d).                  *)
(***************************************************************************)
PropKinds == {"xx", "xu", "xd", "ux", "uu", "ud", "dx", "du", "dd"}

\* The state byte of Top (P) and of Low (P in bits 0-1, K in bits 2-3).
PropTopStates == {0, 1}
PropLowStates == {0, 2, 6, 7}

PropRepositories ==
    [inst : [xp : {FALSE}, topKey : {"none"}, lowKey : {"True"}, lowP : {FALSE},
             sysTop : {FALSE}, insts : { <<kind>> : kind \in PropKinds }, names : {<<>>}],
     stTop : PropTopStates, stLow : PropLowStates]

PropStoredObjects(objects, stTop, stLow) ==
    [cd \in DOMAIN objects |->
        IF cd = <<1, 1>> THEN [objects[cd] EXCEPT !.default_values_data.state = <<stTop>>]
        ELSE IF cd = <<1, 2>> THEN [objects[cd] EXCEPT !.default_values_data.state = <<stLow>>]
        ELSE objects[cd]]

PropRepository(r) ==
    [InstRepository(r.inst) EXCEPT
        !.objects = PropStoredObjects(InstRepository(r.inst).objects, r.stTop, r.stLow)]

\* ClassInstanceProperty.value (lines 215-219) of an entry of the dict
\* ClassInstance.properties returned.
ClassInstanceProperty_value(p) ==
    IF ~p.is_initialized THEN [err |-> "ValueError", value |-> ""]
    ELSE [err |-> "None", value |-> p.value]

\* instance.properties[name].value: the dict is computed whole (it is a
\* cached_property) before the entry of the name is taken from it.
ClassInstance_property_value(properties, name) ==
    IF properties.err # "None" THEN [err |-> properties.err, value |-> ""]
    ELSE IF ~dict_has(properties.props, name) THEN [err |-> "KeyError", value |-> ""]
    ELSE ClassInstanceProperty_value(dict_getitem(properties.props, name))

\* The instance a reference of a class leads to, and the value of one of
\* its properties.
Class_instance_property_value_of(c, ci, name) ==
    IF ci.err # "None" THEN [err |-> ci.err, value |-> ""]
    ELSE ClassInstance_property_value(ClassInstance_properties(c, ci), name)

Class_instance_property_value(c, self, o, name) ==
    IF o.err # "None" THEN [err |-> o.err, value |-> ""]
    ELSE Class_instance_property_value_of(c, ClassInstance(c, self, c.objects[o.cd]), name)

PropIdle == [pc |-> "idle", ref |-> "", name |-> "", err |-> "None", value |-> ""]

InitProp ==
    /\ \E r \in PropRepositories : cim = PropRepository(r)
    /\ calc = PropIdle
    /\ nav = <<>>
    /\ mappings = <<>> /\ fcm = FcmIdle
    /\ omap = <<>> /\ ofile = <<>> /\ okey = <<>> /\ og = <<>>

\* instance.properties[name].value on the instance of a reference of Low
CallPropertyValue ==
    /\ calc.pc = "idle"
    /\ \E cls \in {Namespace_class_(cim, ROOT_NAMESPACE_NAME, "Low")} :
         /\ cls.err = "None"
         /\ \E refs \in {InstanceReferences(cim, cls.class_)} :
            \E i \in 1..Len(refs), name \in {"P", "K"} :
            \E v \in {Class_instance_property_value(cim, cls.class_,
                                                    Key_object(cim, refs[i]), name)} :
               calc' = [calc EXCEPT !.pc = "value", !.ref = refs[i], !.name = name,
                                    !.err = v.err, !.value = v.value]
    /\ UNCHANGED <<cim, nav, mapVars, objVars>>

NextProp == CallPropertyValue

SpecProp == InitProp /\ [][NextProp]_vars

(***************************************************************************)
(* SpecXp: is_xp_mapping (utils.py) on one header.  The header is of the   *)
(* layout with first_id and second_id or of the XP layout without them;    *)
(* its fields are unsigned values: the small ones, among them page counts  *)
(* that are not multiples of 10, and the greatest one.                     *)
(***************************************************************************)
MaxCount == 21
MaxId == 2

\* The greatest value of a field: the fields are uint32 in the source, the
\* width is scaled to 16 bits here.  The arithmetic of is_xp_mapping is on
\* Python integers and does not wrap at any width.
MaxField == 65535

XpCounts == 0..MaxCount \cup {MaxField}
XpEntryCounts == 0..(MaxCount \div 10 + 1) \cup {MaxField}
XpIds == 0..MaxId \cup {MaxField}
XpSignatures == {MAPPING_SIGNATURE, 0}

XpHeaders ==
    {mapping_header(<<s, 1, f, g, p, e>>) :
        s \in XpSignatures, f \in XpIds, g \in XpIds, p \in XpCounts, e \in XpEntryCounts}
    \cup {mapping_header_xp(<<s, 1, p, e>>) :
        s \in XpSignatures, p \in XpCounts, e \in XpEntryCounts}

XpIdle(h) == [pc |-> "idle", h |-> h, out |-> ""]

InitXp ==
    /\ \E h \in XpHeaders : calc = XpIdle(h)
    /\ cim = <<>> /\ nav = <<>>
    /\ mappings = <<>> /\ fcm = FcmIdle
    /\ omap = <<>> /\ ofile = <<>> /\ okey = <<>> /\ og = <<>>

\* is_xp_mapping(h)
CallIsXpMapping ==
    /\ calc.pc = "idle"
    /\ calc' = [calc EXCEPT !.pc = "xp", !.out = is_xp_mapping(calc.h)]
    /\ UNCHANGED <<cim, nav, mapVars, objVars>>

NextXp == CallIsXpMapping

SpecXp == InitXp /\ [][NextXp]_vars

(***************************************************************************)
(* Claims about mapping selection.                                         *)
(***************************************************************************)
Version(j) == mappings[j][2]
AllSignaturesValid == \A j \in 1..Len(mappings) : mappings[j][1] = MAPPING_SIGNATURE
SomeSignatureInvalid == \E j \in 1..Len(mappings) : mappings[j][1] # MAPPING_SIGNATURE
IsMaxVersion(c) ==
    /\ c \in 1..Len(mappings)
    /\ \A j \in 1..Len(mappings) : Version(c) >= Version(j)

\* C2 as stated: for every non-empty list of candidates with valid
\* signatures, find_current_mapping returns a stream of the list whose
\* version is greater than or equal to every other version, all-zero
\* versions included.
C2_WinnerHasMaxVersion ==
    (fcm.pc = "returned" /\ Len(mappings) > 0 /\ AllSignaturesValid)
        => IsMaxVersion(fcm.current)

\* C2 as amended: the winner is a stream with the maximum version whenever
\* some candidate has a version greater than zero; when every version is zero
\* find_current_mapping returns no winner (and CIM.__init__ then fails).
C2_WinnerHasMaxVersionUnlessAllZero ==
    /\ (fcm.pc = "returned" /\ Len(mappings) > 0 /\ AllSignaturesValid)
          => IF \E j \in 1..Len(mappings) : Version(j) > 0
             THEN IsMaxVersion(fcm.current)
             ELSE fcm.current = 0
    /\ (fcm.pc = "cim_selected") => fcm.current \in 1..Len(mappings)

\* C2 witness: three valid candidates, the last two tied at the highest
\* version, and the selection has returned one of them.
C2_Witness ==
    /\ fcm.pc = "returned" /\ Len(mappings) = 3 /\ AllSignaturesValid
    /\ Version(1) = 1 /\ Version(2) = MaxVersion /\ Version(3) = MaxVersion
    /\ fcm.current = 2

\* C3 as stated: whenever any candidate stream, the first, second or third,
\* has a signature other than 0xABCD, find_current_mapping fails with
\* InvalidDatabaseError and returns no winner.
C3_BadSignatureRaisesInvalidDatabaseError ==
    (fcm.pc \in {"returned", "raised"} /\ SomeSignatureInvalid)
        => (fcm.pc = "raised" /\ fcm.err = "InvalidDatabaseError")

\* C3, the stronger half alone: no winner is returned when some candidate
\* has a bad signature (whatever the class of the error).
C3_BadSignatureReturnsNoWinner ==
    (fcm.pc = "returned" /\ SomeSignatureInvalid) => fcm.current = 0

(***************************************************************************)
(* Claims about page translation and object reassembly.                    *)
(***************************************************************************)
IsSentinel(entry) == entry % (MAPPING_PAGE_ID_MASK + 1) = UNMAPPED_PAGE_VALUE

\* C1 as stated: whenever Objects.get returns for a key whose record id is in
\* the table of contents of its data page, the returned stream has exactly
\* data_length bytes, whatever the size of the entry and however many
\* successor pages were spliced in.
C1_ObjectHasDataLength ==
    og.pc = "done" => SumLen(og.read_list) = okey.data_length

\* C4 as stated: Mapping.get_entry, and objects.Store.page through it, raises
\* UnmappedPageError when the masked page number of the entry is 0x3FFFFFFF,
\* and no page is read for it.
C4_SentinelRaisesUnmappedPageError ==
    /\ (og.pc \in {"entry", "entry_raised"}
          /\ og.n < Len(omap) /\ IsSentinel(omap[og.n + 1]))
        => og.err = "UnmappedPageError"
    /\ (og.pc \in {"done", "loop", "raised"}
          /\ okey.data_page < Len(omap) /\ IsSentinel(omap[okey.data_page + 1]))
        => (og.err = "UnmappedPageError" /\ og.reads = <<>>)

\* C5 as stated: get_entry(n) raises UnmappedPageError for every n at or
\* beyond mapping_entry_count and returns the n-th entry for every n below it.
C5_OutOfRangeRaisesUnmappedPageError ==
    og.pc \in {"entry", "entry_raised"}
        => IF og.n >= Len(omap)
           THEN og.err = "UnmappedPageError"
           ELSE og.err = "None" /\ og.entry.entry = omap[og.n + 1]

(***************************************************************************)
(* Claims about references, classes and derivations.                       *)
(***************************************************************************)
\* The stepwise walk of DerivationStep and Class.derivation as a whole
\* give the same list.
DerivationStepsAgree ==
    nav.pc = "derived" =>
        Class_derivation(cim, nav.self) = [err |-> "None", derivation |-> nav.derivation]

\* C6, as amended: Key.reference() returns None when the index lookup of the
\* key yields no match, returns that match when it yields exactly one, and
\* fails with ValueError when it yields more than one.
C6_ReferenceNoneOneOrValueError ==
    nav.pc = "reference" =>
        LET refs == Index_lookup(cim.index, nav.q) IN
        /\ Len(refs) = 0 => nav.err = "None" /\ nav.ref = "None"
        /\ Len(refs) = 1 => nav.err = "None" /\ nav.ref = refs[1]
        /\ Len(refs) > 1 => nav.err = "ValueError"

\* C6, witness: a reference was asked for a key that several index keys
\* match, and the call failed with ValueError.
C6_Witness ==
    /\ nav.pc = "reference"
    /\ Len(Index_lookup(cim.index, nav.q)) > 1
    /\ nav.err = "ValueError"

\* C6, as stated: Key.reference() returns None for no match, the match for
\* exactly one, and fails with InvalidDatabaseError for more than one.
C6_ReferenceNoneOneOrInvalidDatabaseError ==
    nav.pc = "reference" =>
        LET refs == Index_lookup(cim.index, nav.q) IN
        /\ Len(refs) = 0 => nav.err = "None" /\ nav.ref = "None"
        /\ Len(refs) = 1 => nav.err = "None" /\ nav.ref = refs[1]
        /\ Len(refs) > 1 => nav.err = "InvalidDatabaseError"

\* The keys NS(ns).CD(name) and NS(__SystemClass).CD(name) of a finished
\* call of Namespace.class_, and the data reference (page, id) of a key.
OwnKey == Key_CD(cim.type_xp, Key_NS(cim.type_xp, Key(<<>>), nav.ns), nav.name)
SystemKey == Key_CD(cim.type_xp, Key_NS(cim.type_xp, Key(<<>>), SYSTEM_NAMESPACE_NAME), nav.name)
DataRef(ref) == << Key_data_page(ref), Key_data_id(ref) >>

\* C7: Namespace.class_(name) wraps the class definition referenced by
\* NS(ns).CD(name) when that key has a reference, otherwise the one
\* referenced by NS(__SystemClass).CD(name); when neither key has a
\* reference it raises ReferenceNotFoundError and returns no Class.
C7_ClassFallsBackToSystemNamespace ==
    nav.pc \in {"class", "class_raised"} =>
        LET own == Index_lookup(cim.index, OwnKey)
            sys == Index_lookup(cim.index, SystemKey)
        IN  /\ Len(own) = 1 =>
                nav.pc = "class" /\ nav.self = [namespace |-> nav.ns, cd |-> DataRef(own[1])]
            /\ Len(own) = 0 /\ Len(sys) = 1 =>
                nav.pc = "class" /\ nav.self = [namespace |-> nav.ns, cd |-> DataRef(sys[1])]
            /\ Len(own) = 0 /\ Len(sys) = 0 =>
                nav.pc = "class_raised" /\ nav.err = "ReferenceNotFoundError"

\* The fallback of C7 fails only for the names whose digest is used verbatim
\* a second time (the digest of the name has decimal digits only).
C7_FallbackHoldsUnlessDigestOfDigits ==
    nav.pc \in {"class", "class_raised"} =>
        \/ C7_ClassFallsBackToSystemNamespace
        \/ /\ cim.type_xp
           /\ nav.name = "PUAID"
           /\ nav.ns # SYSTEM_NAMESPACE_NAME
           /\ nav.err = "ReferenceNotFoundError"

\* C8: when Class.derivation returns, it is the list of classes along the
\* super-class chain ordered from root (the class whose super_class_name is
\* empty) to leaf, its last entry is the class itself, and no class appears
\* in it twice.
C8_DerivationRootToLeaf ==
    nav.pc = "derived" =>
        LET d == nav.derivation IN
        /\ Len(d) >= 1
        /\ d[Len(d)] = nav.self
        /\ ClassDef(cim, d[1]).super_class_name = ""
        /\ \A i \in 2..Len(d) :
              /\ ClassDef(cim, d[i]).super_class_name # ""
              /\ str_upper(ClassDef(cim, d[i - 1]).class_name)
                     = str_upper(ClassDef(cim, d[i]).super_class_name)
        /\ \A i, j \in 1..Len(d) :
              i # j => /\ d[i] # d[j]
                       /\ ClassDef(cim, d[i]).class_name # ClassDef(cim, d[j]).class_name

\* C8, witness: a derivation of three classes was returned.
C8_Witness ==
    /\ nav.pc = "derived"
    /\ Len(nav.derivation) = 3
    /\ nav.derivation[3] = nav.self

\* The positions of a derivation whose class definition declares a name.
Declares(d, i, name) ==
    \E k \in 1..Len(ClassDef(cim, d[i]).property_references) :
        ClassDef(cim, d[i]).property_references[k].name = name

NearestDeclaration(d, name) ==
    CHOOSE i \in 1..Len(d) :
        /\ Declares(d, i, name)
        /\ \A j \in (i + 1)..Len(d) : ~Declares(d, j, name)

\* C9: Class.properties contains a property for every property name
\* declared by the class or by any class of its derivation, and where the
\* same name is declared at several levels the entry is the one declared
\* nearest to the leaf.
C9_PropertiesLeafShadowsAncestors ==
    nav.pc = "properties" =>
        LET d == nav.derivation IN
        \A i \in 1..Len(d) :
            \A k \in 1..Len(ClassDef(cim, d[i]).property_references) :
                LET ref == ClassDef(cim, d[i]).property_references[k] IN
                /\ dict_has(nav.props, ref.name)
                /\ dict_getitem(nav.props, ref.name).class_ = nav.self
                /\ dict_getitem(nav.props, ref.name).prop.decl
                       = d[NearestDeclaration(d, ref.name)].cd

\* C9, witness: the properties of a class were returned whose derivation
\* declares P at two levels, the nearer to the leaf not being the root.
C9_Witness ==
    /\ nav.pc = "properties"
    /\ \E i, j \in 1..Len(nav.derivation) :
          /\ i < j
          /\ Declares(nav.derivation, i, "P")
          /\ Declares(nav.derivation, j, "P")
          /\ dict_getitem(nav.props, "P").prop.decl = nav.derivation[j].cd

(***************************************************************************)
(* Claims about default values.  The call of default_value of nav.prop on  *)
(* the class nav.self has ended; Leafward is the derivation of the class   *)
(* from the class itself toward the root.                                  *)
(***************************************************************************)
DefaultCallEnded == nav.pc \in {"default", "default_raised"}
PropIndex == dict_getitem(nav.props, nav.prop).prop.index
Leafward == Reverse(nav.derivation)
StateOn(i) == Class_property_state(cim, Leafward[i], PropIndex)

InheritedOnSelf ==
    /\ DefaultCallEnded
    /\ StateOn(1).err = "None"
    /\ StateOn(1).has_default_value
    /\ StateOn(1).is_inherited

Qualifies(i) ==
    /\ StateOn(i).err = "None"
    /\ StateOn(i).has_default_value
    /\ ~StateOn(i).is_inherited

\* The nearest class, from the class toward the root, whose state for the
\* property is (has_default_value = true, is_inherited = false).
NearestQualifying ==
    CHOOSE i \in 1..Len(Leafward) : Qualifies(i) /\ \A j \in 1..(i - 1) : ~Qualifies(j)

\* The value stored for the property on a class of the derivation, decoded
\* from the property data of that class.
StoredOn(i) ==
    ClassDef(cim, Leafward[i]).property_data[
        ClassDef(cim, Leafward[i]).default_values_data.values[PropIndex + 1]]

\* C10, as amended: for a property whose state on class C is
\* (has_default_value = true, is_inherited = true), Property.default_value
\* returns the value stored on the nearest ancestor of C whose state for the
\* property is (has_default_value = true, is_inherited = false), decoded
\* from that ancestor's property data, provided every class between C and
\* that ancestor has has_default_value = true; when one of them has not,
\* it raises Error.
C10_InheritedDefaultFromNearestUnlessBadAncestor ==
    (InheritedOnSelf /\ \E i \in 1..Len(Leafward) : Qualifies(i)) =>
        IF \A j \in 1..(NearestQualifying - 1) : StateOn(j).has_default_value
        THEN nav.pc = "default" /\ nav.value = StoredOn(NearestQualifying)
        ELSE nav.pc = "default_raised" /\ nav.err = "Error"

\* C10, witness: the default was inherited through a class whose state is
\* inherited as well and was returned from the class above it.
C10_Witness ==
    /\ InheritedOnSelf
    /\ \E i \in 1..Len(Leafward) : Qualifies(i)
    /\ NearestQualifying = 3
    /\ nav.pc = "default"
    /\ nav.value = StoredOn(3)

\* C10, as stated: for a property whose state on class C is
\* (has_default_value = true, is_inherited = true), Property.default_value
\* returns the value stored on the nearest ancestor of C whose state for the
\* property is (has_default_value = true, is_inherited = false).
C10_InheritedDefaultFromNearest ==
    (InheritedOnSelf /\ \E i \in 1..Len(Leafward) : Qualifies(i)) =>
        nav.pc = "default" /\ nav.value = StoredOn(NearestQualifying)

(***************************************************************************)
(* Claims about the table of property states.                              *)
(***************************************************************************)
\* C11: for every property count n the property-state table occupies
\* ceil(2n/8) bytes, and for every index i < n the state read at i is the
\* two bits of byte i//4 shifted right by 2*(i%4): the first flag is true
\* iff bit 1 is set, the second flag is true iff bit 0 is clear.
C11_StateTableLengthAndBits ==
    /\ calc.pc \in {"states", "state"} =>
          Len(calc.entries) = (2 * calc.num_properties + 7) \div 8
    /\ (calc.pc = "state" /\ calc.idx < calc.num_properties) =>
          /\ calc.state.err = "None"
          /\ calc.state.is_inherited
                 = ((calc.entries[(calc.idx \div 4) + 1] \div 2^(2 * (calc.idx % 4) + 1)) % 2 = 1)
          /\ calc.state.has_default_value
                 = ((calc.entries[(calc.idx \div 4) + 1] \div 2^(2 * (calc.idx % 4))) % 2 = 0)

\* C11, witness: a state was read from the second byte of a table, at a
\* position that is shifted, with bit 1 set and bit 0 clear: both flags true.
C11_Witness ==
    /\ calc.pc = "state"
    /\ calc.idx < calc.num_properties
    /\ calc.idx \div 4 = 1
    /\ calc.idx % 4 = 2
    /\ calc.state.is_inherited
    /\ calc.state.has_default_value

(***************************************************************************)
(* Claims about instances and their keys.                                  *)
(***************************************************************************)
\* The class a call of SpecInst was made on, and the instance of its
\* reference.
CalledClass == Namespace_class_(cim, calc.ns, calc.name).class_
CalledInstance ==
    ClassInstance(cim, CalledClass, cim.objects[Key_object(cim, calc.ref).cd])

\* A property of a class carries the key qualifier with the value true.
IsKeyQualified(p) ==
    \E q \in {ClassDefinitionProperty_qualifiers(cim, p.prop)} :
       \E i \in 1..Len(q) : q[i].name = PROP_QUALIFIER_KEY /\ q[i].value = "True"

\* The name=value pairs of the key-qualified properties among the
\* properties of the class, in the order the class enumerates them.
KeyPairs(props, values) ==
    LET Test(item) == IsKeyQualified(item.value)
        keyed == SelectSeq(props, Test)
    IN  [i \in 1..Len(keyed) |->
            keyed[i].name \o "=" \o dict_getitem(values, keyed[i].name).value]

KeyStringOfClass ==
    LET pairs == KeyPairs(Class_properties(cim, CalledClass).props,
                          ClassInstance_properties(cim, CalledInstance).props)
    IN  IF pairs = <<>> THEN "default" ELSE str_join(pairs, ";")

\* C12: the string of an instance's key is "default" when no property of
\* the instance's class is key-qualified with the value true, and otherwise
\* the name=value pairs of exactly the key-qualified properties, joined by
\* ";" in the order the properties are enumerated.
C12_KeyStringOfKeyQualifiedProperties ==
    (calc.pc = "key" /\ calc.err = "None") => calc.ikey = KeyStringOfClass

(***************************************************************************)
(* Claims about keys.                                                      *)
(***************************************************************************)
\* C13: for a key whose last segment is PREFIX_DIGEST.page.id.length,
\* is_data_reference is true and data_page, data_id and data_length are
\* page, id and length; for a key without '.', is_data_reference is false
\* and each accessor fails instead of returning a number.
C13_DataReferenceRoundTrip ==
    /\ calc.pc = "stored_read" =>
          /\ calc.is_data_reference
          /\ calc.data_page = calc.page
          /\ calc.data_id = calc.id
          /\ calc.data_length = calc.length
    /\ calc.pc = "key_read" =>
          /\ ~calc.is_data_reference
          /\ calc.data_page = -1
          /\ calc.data_id = -1
          /\ calc.data_length = -1

\* C13, witness: a stored key of three segments was read back with three
\* different numbers, one of them of several digits.
C13_Witness ==
    /\ calc.pc = "stored_read"
    /\ calc.segments = 3
    /\ calc.data_page = 12
    /\ calc.data_id = 0
    /\ calc.data_length = 140

\* The last segment of the key built, and the names made only of the
\* characters 0-9 and A-F.
LastSegment == str_split(calc.key, "/")[Len(str_split(calc.key, "/"))]
IsUpperHexName(name) ==
    /\ name # ""
    /\ \A i \in 1..Len(name) :
          \/ IsDigitChar(Char(name, i))
          \/ Ord[Char(name, i)] >= Ord["A"] /\ Ord[Char(name, i)] <= Ord["F"]

\* C14: for a name made only of upper-case hexadecimal characters, names of
\* digits only included, NS, CD, CI and IL append PREFIX_name with the name
\* verbatim; for every other name they append PREFIX_H, H the upper-case
\* hex digest (MD5 under XP, SHA-256 otherwise) of the upper-cased name.
C14_HexNameVerbatimElseHashed ==
    (calc.pc = "key" /\ calc.segments > 0) =>
        LastSegment = calc.prefix \o "_" \o
            (IF IsUpperHexName(calc.name) THEN calc.name
             ELSE Key__hash(calc.xp, str_upper(calc.name)))


(***************************************************************************)
(* Claims about the enumerations of the navigator.                         *)
(***************************************************************************)
\* No element of a sequence occurs twice; the sequence without the later
\* occurrences of its elements.
NoDuplicates(s) == \A i, j \in 1..Len(s) : s[i] = s[j] => i = j

RECURSIVE FirstOccurrences(_)
FirstOccurrences(s) ==
    IF s = <<>> THEN <<>>
    ELSE LET rest == FirstOccurrences(SubSeq(s, 1, Len(s) - 1))
             last == s[Len(s)]
         IN  IF \E i \in 1..Len(rest) : rest[i] = last THEN rest ELSE Append(rest, last)

\* The names of the child namespaces stored under root in reference order:
\* the references are in the order of the digests of their instances.
StoredNamespaceNames ==
    LET refs == Key_references(cim.index,
                    Key_IL_none(Key_CI(cim.type_xp,
                                       Key_NS(cim.type_xp, Key(<<>>), calc.ns),
                                       NAMESPACE_CLASS_NAME)))
    IN  [i \in 1..Len(refs) |->
            calc.ns \o "\\" \o cim.objects[Key_object(cim, refs[i]).cd].data[12]]

\* C15: one enumeration of Namespace.namespaces never yields two child
\* namespaces of the same name; of several references that decode to the
\* same name the first is yielded, in reference order.
C15_NamespacesYieldEachNameOnce ==
    (calc.pc = "namespaces" /\ calc.err = "None") =>
        /\ NoDuplicates(calc.out)
        /\ calc.out = FirstOccurrences(StoredNamespaceNames)
                          \o (IF calc.ns = ROOT_NAMESPACE_NAME
                              THEN <<SYSTEM_NAMESPACE_NAME>> ELSE <<>>)


\* The classes stored under a namespace in reference order, and the key
\* strings of the stored instances of the class called, in reference order.
StoredClasses(ns) ==
    LET refs == Key_references(cim.index,
                    Key_CD_none(Key_NS(cim.type_xp, Key(<<>>), ns)))
    IN  [i \in 1..Len(refs) |->
            [name |-> cim.objects[<<Key_data_page(refs[i]), Key_data_id(refs[i])>>].class_name,
             class_ |-> [namespace |-> calc.ns,
                         cd |-> <<Key_data_page(refs[i]), Key_data_id(refs[i])>>]]]

StoredInstances ==
    LET refs == InstanceReferences(cim, CalledClass)
    IN  [i \in 1..Len(refs) |->
            [ref |-> refs[i],
             key |-> Class_instances_key(cim, CalledClass, Key_object(cim, refs[i])).key,
             ikey |-> Class_instances_key(cim, CalledClass, Key_object(cim, refs[i])).ikey]]

\* The elements of a sequence of records that are the first with their
\* name, or with their key string.
FirstByName(s) == SelectSeq([i \in 1..Len(s) |-> [i |-> i, e |-> s[i]]],
                            LAMBDA x : \A j \in 1..(x.i - 1) : s[j].name # x.e.name)
FirstByKeyString(s) == SelectSeq([i \in 1..Len(s) |-> [i |-> i, e |-> s[i]]],
                                 LAMBDA x : \A j \in 1..(x.i - 1) : s[j].ikey # x.e.ikey)

\* C16: one enumeration of Namespace.classes yields no class name twice and
\* one enumeration of Class.instances yields no key string twice; the first
\* occurrence is the one kept, the system classes, given the enumerating
\* namespace, coming before the classes of the namespace's own references.
C16_ClassesAndInstancesYieldOnce ==
    /\ calc.pc = "classes" =>
          /\ NoDuplicates([i \in 1..Len(calc.out) |-> calc.out[i].name])
          /\ \A i \in 1..Len(calc.out) : calc.out[i].class_.namespace = calc.ns
          /\ calc.err = "None" =>
                LET all == (IF calc.ns = SYSTEM_NAMESPACE_NAME THEN <<>>
                            ELSE StoredClasses(SYSTEM_NAMESPACE_NAME))
                               \o StoredClasses(calc.ns)
                    first == FirstByName(all)
                IN  calc.out = [i \in 1..Len(first) |-> first[i].e]
    /\ calc.pc = "instances" =>
          /\ NoDuplicates([i \in 1..Len(calc.out) |-> calc.out[i].ikey])
          /\ calc.err = "None" =>
                LET first == FirstByKeyString(StoredInstances)
                IN  calc.out = [i \in 1..Len(first) |-> first[i].e]

\* C16, witness: root was enumerated in a repository that stores Top under
\* __SystemClass and under root: three classes were yielded, Top once, as
\* the definition of the system namespace, before Low.
C16_Witness ==
    /\ calc.pc = "classes"
    /\ calc.ns = ROOT_NAMESPACE_NAME
    /\ calc.err = "None"
    /\ Len(calc.out) = 3
    /\ \E i \in 1..2 :
          /\ calc.out[i].name = "Top"
          /\ calc.out[i].class_.cd = <<2, 3>>
    /\ calc.out[3].name = "Low"


(***************************************************************************)
(* Claims about the construction.                                          *)
(***************************************************************************)
\* Where the footer and the index-mapping record of a stream are.
FooterPosition ==
    Len(MappingRecord(calc.layout.xp, calc.layout.version, calc.layout.objects_entries,
                      calc.layout.objects_free)) + 1
IndexPosition == FooterPosition + Len(calc.layout.footer)

\* C17: the construction succeeds for a mapping stream laid out as
\* objects-mapping record, footer signature 0xDCBA, index-mapping record, in
\* the XP and in the modern layout; the footer is read once, after the
\* objects mapping and before the index mapping, which is parsed from its
\* own header.
C17_ConstructionReadsFooterOnce ==
    (calc.layout.footer = <<FOOTER_SIGNATURE>> /\ calc.layout.tail = <<>>) =>
        /\ calc.pc # "raised"
        /\ calc.pc \in {"footer", "constructed"} => calc.footer_at = <<FooterPosition>>
        /\ calc.pc = "constructed" =>
              /\ calc.objects_at = 1
              /\ calc.index_at = IndexPosition


\* The key of a stored instance of the class called: the key-qualified
\* properties of the class with the values of the instance.
KeyOfStored(ref) ==
    LET props == Class_properties(cim, CalledClass).props
        values == ClassInstance_properties(cim,
                      ClassInstance(cim, CalledClass,
                                    cim.objects[Key_object(cim, ref).cd])).props
        keyed == SelectSeq(props, LAMBDA item : IsKeyQualified(item.value))
    IN  [i \in 1..Len(keyed) |->
            [name |-> keyed[i].name, value |-> dict_getitem(values, keyed[i].name).value]]

\* The path of a query named a class that exists and key=value pairs, on
\* this host.
QueryNamedAnInstance ==
    /\ calc.pc = "query"
    /\ calc.hostname = "localhost"
    /\ calc.key # <<>>
    /\ Namespace_class_(cim, calc.ns, calc.name).err = "None"

\* C18: a query for a class with key=value pairs returns the instance of
\* the class in the resolved namespace whose key equals the parsed pairs,
\* quotes stripped, and raises IndexError when the class has no instance of
\* that key.
C18_QueryReturnsInstanceOfKey ==
    QueryNamedAnInstance =>
        LET refs == InstanceReferences(cim, CalledClass)
            matching == {i \in 1..Len(refs) : dict_eq(KeyOfStored(refs[i]), calc.key)}
        IN  IF matching = {} THEN calc.err = "IndexError"
            ELSE /\ calc.err = "None"
                 /\ calc.out.type = "Instance"
                 /\ calc.out.namespace = calc.ns
                 /\ calc.out.instance.ref
                        = refs[CHOOSE i \in matching : \A j \in matching : i <= j]

(***************************************************************************)
(* Claims about Index.lookup.                                              *)
(***************************************************************************)
RECURSIVE IdxReachable(_, _)
\* The pages of the subtree of page pno: the page and what its child
\* pointers other than the sentinels lead to.
IdxReachable(pages, pno) ==
    {pno} \cup UNION { IdxReachable(pages, pages[pno].children[j]) :
                         j \in { c \in DOMAIN pages[pno].children :
                                   pages[pno].children[c]
                                       \notin { INDEX_PAGE_INVALID, INDEX_PAGE_INVALID2 } } }

IdxSubtreeKeys(pages, pno) ==
    UNION { { pages[p].keys[j] : j \in DOMAIN pages[p].keys } : p \in IdxReachable(pages, pno) }

IdxChildKeys(pages, pno, j) ==
    IF pages[pno].children[j] \in { INDEX_PAGE_INVALID, INDEX_PAGE_INVALID2 } THEN {}
    ELSE IdxSubtreeKeys(pages, pages[pno].children[j])

\* The keys of every page ascend, and the subtree before a key holds smaller
\* keys, the subtree after it greater ones.
IdxOrdered(index) ==
    \A p \in IdxReachable(index.pages, index.root) :
        LET page == index.pages[p] IN
        /\ \A j \in 1..(Len(page.keys) - 1) : str_less(page.keys[j], page.keys[j + 1])
        /\ \A j \in DOMAIN page.keys :
              /\ \A k \in IdxChildKeys(index.pages, p, j) : str_less(k, page.keys[j])
              /\ \A k \in IdxChildKeys(index.pages, p, j + 1) : str_less(page.keys[j], k)

IdxReturned == { calc.out[n] : n \in DOMAIN calc.out }

\* C19: on an index whose pages hold their keys in ascending order and whose
\* subtrees respect that order, Index.lookup(target) returns every key of
\* the tree that begins with target, whichever page or subtree holds it.
C19_LookupFindsEveryKeyOfPrefix ==
    (calc.pc = "lookup" /\ IdxOrdered(calc.index))
        => \A k \in IdxSubtreeKeys(calc.index.pages, calc.index.root) :
              str_startswith(k, calc.key) => k \in IdxReturned

\* C19 witness: a lookup of the class definitions of a namespace on a tree of
\* three levels, one of them on the root page, one on a page two levels
\* below, next to a key of another namespace.
C19_Witness ==
    /\ calc.pc = "lookup" /\ calc.key = "NS_1/CD_2" /\ IdxOrdered(calc.index)
    /\ LET pages == calc.index.pages
           root == calc.index.root
       IN  /\ \E j \in DOMAIN pages[root].keys : str_startswith(pages[root].keys[j], calc.key)
           /\ \E p \in IdxReachable(pages, root) \ {root} :
                 \E q \in IdxReachable(pages, p) \ {p} :
                    \E j \in DOMAIN pages[q].keys :
                       /\ str_startswith(pages[q].keys[j], calc.key)
                       /\ pages[q].keys[j] \in IdxReturned
           /\ "NS_2/CD_2.1.2.3" \in IdxSubtreeKeys(pages, root)

\* The place of the key k in the list res, 0 when it is not there.
IdxPlace(res, k) ==
    IF \E n \in DOMAIN res : res[n] = k THEN CHOOSE n \in DOMAIN res : res[n] = k ELSE 0

\* In the matches res of page pno, the matches of child i stand right before
\* the matching key at position i and those of child i + 1 right after it.
IdxAround(pages, key, pno, i, res) ==
    LET n == IdxPlace(res, pages[pno].keys[i + 1])
        left == Index__lookup_child(pages, key, pno, i, 0)
        right == Index__lookup_child(pages, key, pno, i, 1)
    IN  /\ n >= 1
        /\ n - Len(left) >= 1 /\ SubSeq(res, n - Len(left), n - 1) = left
        /\ n + Len(right) <= Len(res) /\ SubSeq(res, n + 1, n + Len(right)) = right

\* The matches of page pno are in traversal order: around each matching key
\* of the page that is among them, and from one such key to the next.
IdxTraversal(pages, key, pno) ==
    LET res == Index__lookup(pages, key, pno, 0)
        keys == pages[pno].keys
        hits == { i \in 0..(Len(keys) - 1) :
                    str_contains(key, keys[i + 1]) /\ IdxPlace(res, keys[i + 1]) # 0 }
    IN  /\ \A i \in hits : IdxAround(pages, key, pno, i, res)
        /\ \A i, j \in hits : i < j => IdxPlace(res, keys[i + 1]) < IdxPlace(res, keys[j + 1])

\* C20: every key Index.lookup(target) returns contains target; on every
\* page the matches of child i come before a matching key at position i and
\* those of child i + 1 after it, the keys of the page in the order of their
\* positions; and no returned key comes from behind a sentinel pointer.
C20_LookupReturnsMatchesInTraversalOrder ==
    calc.pc = "lookup"
        => /\ \A n \in DOMAIN calc.out : str_contains(calc.key, calc.out[n])
           /\ \A p \in IdxReachable(calc.index.pages, calc.index.root) :
                 IdxTraversal(calc.index.pages, calc.key, p)
           /\ IdxReturned \subseteq IdxSubtreeKeys(calc.index.pages, calc.index.root)

\* C20 witness: a lookup whose root page has a matching key with matches in
\* the child before it and in the child after it, a second matching key, and
\* pointers of both sentinel values on the pages of the tree.
C20_Witness ==
    /\ calc.pc = "lookup"
    /\ LET pages == calc.index.pages
           root == calc.index.root
           keys == pages[root].keys
       IN  /\ \E i \in 0..(Len(keys) - 1) :
                 /\ str_contains(calc.key, keys[i + 1])
                 /\ Index__lookup_child(pages, calc.key, root, i, 0) # <<>>
                 /\ Index__lookup_child(pages, calc.key, root, i, 1) # <<>>
           /\ Cardinality({ j \in DOMAIN keys : str_contains(calc.key, keys[j]) }) >= 2
           /\ \E p, q \in IdxReachable(pages, root) :
                 /\ \E j \in DOMAIN pages[p].children : pages[p].children[j] = INDEX_PAGE_INVALID
                 /\ \E j \in DOMAIN pages[q].children : pages[q].children[j] = INDEX_PAGE_INVALID2

\* C21: the list Index.lookup(target) returns holds each stored key at most
\* once, also when two adjacent keys of a page both match the target or a
\* matching key is followed on its page by a greater key.
C21_LookupReturnsEachKeyOnce ==
    calc.pc = "lookup" => NoDuplicates(calc.out)

(***************************************************************************)
(* Claims about the caches.                                                *)
(***************************************************************************)
\* The computation of Index.lookup(key) on the streams of the session with
\* no cache.
UncachedLookup == Cached_lookup(calc.sess, NoCache, [lc |-> <<>>, ec |-> <<>>], calc.key)

\* C22: after any sequence of Index.lookup and Mapping.get_entry calls on a
\* session, a call returns what the computation without the caches returns
\* on the same streams: the same keys in the same order or the same error
\* for a lookup, the same entry or the same error for get_entry, whatever
\* the caches held.  A lookup that no missing page stops returns the
\* matches of the index the streams hold.
C22_MemoizationIsNeutral ==
    /\ calc.pc = "lookup"
          => /\ calc.err = UncachedLookup.err
             /\ calc.err = "None" => calc.out = UncachedLookup.out
             /\ calc.err = "None" => calc.out = Index_lookup(calc.index, calc.key)
    /\ calc.pc = "get_entry"
          => /\ calc.err = get_entry(calc.sess.map, calc.n).err
             /\ calc.err = "None" => calc.entry = get_entry(calc.sess.map, calc.n)

\* C22 witness: a lookup answered from the cache with matches of a child
\* page, after an entry for the root page was evicted from the full cache.
C22_Witness ==
    /\ calc.pc = "lookup" /\ calc.hit /\ calc.evicted
    /\ Len(calc.lc) = LookupCacheSize
    /\ Len(calc.out) > Len(SelectSeq(calc.sess.root_page.keys,
                                     LAMBDA k : str_contains(calc.key, k)))

(***************************************************************************)
(* Claims about the end of the walks.                                      *)
(***************************************************************************)
\* C23: Class.derivation completes or fails for every class of every
\* repository, also when a super-class name on the chain names a class the
\* walk has already visited.  The class a turn of the loop goes to depends
\* on the class it is at only (lines 242-246), so the walk ends exactly when
\* it never comes to a class it has already appended: a walk in progress is
\* at a class that is not yet in the list.
C23_DerivationEnds ==
    nav.pc = "walk" =>
        \A i \in DOMAIN nav.derivation : nav.derivation[i] # nav.class_

(***************************************************************************)
(* Claims about the resolution of an inherited default.                    *)
(***************************************************************************)
\* The classes, from the class itself toward the root, at which the walk of
\* the resolution does not go on: their state for the property is not
\* (has_default_value = true, is_inherited = true).
WalkStops ==
    { i \in 1..Len(Leafward) :
        ~(StateOn(i).err = "None" /\ StateOn(i).has_default_value /\ StateOn(i).is_inherited) }

FirstStop == CHOOSE i \in WalkStops : \A j \in WalkStops : i <= j

\* The first class, from the root toward the class itself, whose state for
\* the property is (has_default_value = true, is_inherited = false).
RootmostQualifying ==
    CHOOSE i \in 1..Len(Leafward) :
        Qualifies(i) /\ \A j \in (i + 1)..Len(Leafward) : ~Qualifies(j)

\* C24, as amended: for a property with an inherited default, the resolution
\* walks the classes from the class itself toward the root and stops at the
\* first whose state for the property is not (has_default_value and
\* is_inherited); when that class has has_default_value and not
\* is_inherited, its value, read from the property data of that class, is
\* returned; when it has no default value, or when no class stops the walk,
\* the resolution ends in Error.
C24_InheritedDefaultLeafToRoot ==
    InheritedOnSelf =>
        IF WalkStops # {} /\ Qualifies(FirstStop)
        THEN nav.pc = "default" /\ nav.value = StoredOn(FirstStop)
        ELSE nav.pc = "default_raised"
             /\ nav.err = (IF WalkStops # {} /\ StateOn(FirstStop).err # "None"
                           THEN StateOn(FirstStop).err ELSE "Error")

\* C24, witness: two classes above the class hold a default of their own,
\* with different values, and the value of the nearer one was returned.
C24_Witness ==
    /\ InheritedOnSelf
    /\ Len(Leafward) = 3
    /\ Qualifies(2) /\ Qualifies(3)
    /\ StoredOn(2) # StoredOn(3)
    /\ nav.pc = "default"
    /\ nav.value = StoredOn(2)

\* C24, as stated: for a property with an inherited default, the resolution
\* walks the ancestors from root toward leaf and returns the value of the
\* first in that order whose state for the property has has_default_value
\* and not is_inherited, read from that ancestor's property data; when no
\* ancestor qualifies it ends in an error.
C24_InheritedDefaultRootToLeaf ==
    InheritedOnSelf =>
        IF \E i \in 1..Len(Leafward) : Qualifies(i)
        THEN nav.pc = "default" /\ nav.value = StoredOn(RootmostQualifying)
        ELSE nav.pc = "default_raised" /\ nav.err = "Error"


(***************************************************************************)
(* Claims about the value of a property of an instance.                    *)
(***************************************************************************)
\* The object of the instance the value was read from.
PropInstanceObject == cim.objects[Key_object(cim, calc.ref).cd]

\* The index of a property of Low: P is declared on Top at index 0, K on
\* Low at index 1.
PropIndexOf(name) == IF name = "P" THEN 0 ELSE 1

\* The two state bits the instance holds for a property.
PropStateBits(name) == (PropInstanceObject.state[1] \div (4 ^ PropIndexOf(name))) % 4

\* The default the class resolves for a property of the name.
PropClassDefault(name) ==
    LET cls == Namespace_class_(cim, ROOT_NAMESPACE_NAME, "Low").class_
        props == Class_properties(cim, cls).props
    IN  Property_default_value(cim, dict_getitem(props, name))

\* The value the three cases of the rule give the property that was read.
PropValueByRule(name) ==
    IF PropStateBits(name) % 2 = 1 THEN calc.err = "ValueError" /\ calc.value = ""
    ELSE IF PropStateBits(name) \div 2 = 1
    THEN /\ calc.err = PropClassDefault(name).err
         /\ calc.err = "None" => calc.value = PropClassDefault(name).value
    ELSE /\ calc.err = "None"
         /\ calc.value = PropInstanceObject.data[PropInstanceObject.toc[PropIndexOf(name) + 1]]

\* C25: for each property of an instance, reading the value raises an error
\* when the state of the property is not initialized, gives the default the
\* class resolves for the property when the state is initialized and uses the
\* default, and gives otherwise the value decoded from the data of the
\* instance at the offset the table of contents holds for the index of the
\* property.
C25_InstanceValueByState ==
    calc.pc = "value" => PropValueByRule(calc.name)


(***************************************************************************)
(* Claims about the choice between the XP layout and the later one.        *)
(***************************************************************************)
\* The header has both first_id and second_id and they are not consecutive:
\* first_id - 1 is the integer below first_id, -1 for first_id = 0.
XpIdsBroken(h) == h.has_ids /\ h.first_id # h.second_id + 1

\* C26: for a header with the signature 0xABCD, is_xp_mapping returns true
\* exactly when mapping_entry_count is less than the integer quotient of
\* physical_page_count by 10, or when the header has both first_id and
\* second_id and first_id - 1, taken without wrapping, differs from
\* second_id; it returns false otherwise.
C26_XpByFloorTenthOrIds ==
    (calc.pc = "xp" /\ calc.h.signature = MAPPING_SIGNATURE) =>
        /\ calc.out \in {"True", "False"}
        /\ calc.out = "True" <=>
               \/ 10 * (calc.h.mapping_entry_count + 1) <= calc.h.physical_page_count
               \/ XpIdsBroken(calc.h)

\* C26: a header whose page count is not a multiple of 10 and whose count of
\* entries lies between the integer quotient and the exact tenth, with
\* consecutive ids, was given the verdict false.
C26_Witness ==
    /\ calc.pc = "xp" /\ calc.h.signature = MAPPING_SIGNATURE
    /\ calc.h.physical_page_count % 10 # 0
    /\ 10 * calc.h.mapping_entry_count < calc.h.physical_page_count
    /\ 10 * (calc.h.mapping_entry_count + 1) > calc.h.physical_page_count
    /\ ~XpIdsBroken(calc.h)
    /\ calc.out = "False"

\* C26, as stated: for a header with the signature 0xABCD, is_xp_mapping
\* returns true exactly when mapping_entry_count is less than a tenth of
\* physical_page_count, or when the header has both first_id and second_id
\* and first_id - 1 differs from second_id, for every combination of 32-bit
\* field values.
C26_XpByTenthOrIds ==
    (calc.pc = "xp" /\ calc.h.signature = MAPPING_SIGNATURE) =>
        (calc.out = "True" <=>
            \/ 10 * calc.h.mapping_entry_count < calc.h.physical_page_count
            \/ XpIdsBroken(calc.h))

====
